---- MODULE Spec2Model ----
(***************************************************************************)
(* A model of the dashboard performance advisor (koren88i/grafanaOptimize) *)
(* : the severity-weighted scorer, the template-variable preprocessor, the *)
(* expression parsing step and the rule engine and its rules.              *)
(***************************************************************************)
EXTENDS Integers, Sequences, FiniteSets, TLC

VARIABLES
    findings,     \* scorer: the []Finding handed to ComputeScore
    penalty,      \* scorer: the accumulator of ComputeScore's loop over findings
    score,        \* scorer: ComputeScore(findings)
    prevScore,    \* scorer: ComputeScore of the list before the last change
    lastOp,       \* scorer: "init", "add" or "remove": the last change
    substInput,   \* preprocessor: the raw expression string, as bytes
    substOnce,    \* preprocessor: ReplaceTemplateVars(substInput)
    substTwice,   \* preprocessor: ReplaceTemplateVars(substOnce)
    substPc,      \* preprocessor: "start", "once" or "twice"
    dash,         \* engine: the DashboardModel handed to AnalyzeDashboard
    runs,         \* engine: what each AnalyzeDashboard(dash) so far built and returned
    rawExprs,     \* parser: the []string handed to ParseAllExprs
    parseOut,     \* parser: what ParseAllExprs(rawExprs) returned, once it has
    ruleDash,     \* rules: the DashboardModel a rule is checked on
    ruleID,       \* rules: the rule whose Check is called
    ruleOut,      \* rules: what rule.Check(ctx) returned, once it has
    fixDoc,       \* fixer: the raw document
    fixGiven,     \* fixer: the []Finding handed to ApplyFixes
    fixReport,    \* fixer: the report of the analysis of fixDoc, once there is one
    fixOut,       \* fixer: what ApplyFixes(fixDoc, fixGiven) returned, once it has
    fixAgain,     \* fixer: what ApplyFixes(fixOut.Patched, fixGiven) returned, once it has
    fixReport2,   \* fixer: the report of the analysis of fixOut.Patched
    fixPc,        \* fixer: "start", "given", "analysed", "fixed", "again" or "reanalysed"
    scanExpr,     \* scanner: the string handed to replaceVariableRefs
    scanI,        \* scanner: i, the read position of the loop (counted from 1)
    scanB,        \* scanner: what the strings.Builder b holds
    ruleVariables,   \* rules: ctx.Variables, the template variables of the dashboard
    ruleCardinality, \* rules: ctx.Cardinality, nil or the data of the TSDB status API
    costExpr,     \* cost: the parser.Expr handed to EstimateQueryCost
    costCard,     \* cost: the *CardinalityData handed to it
    costStep,     \* cost: stepSeconds, in whole seconds
    costOut,      \* cost: what EstimateQueryCost returned, once it has
    mu,           \* client: c.mu, 0 when unlocked, else the caller that holds it
    cached,       \* client: c.cached
    cachedAt,     \* client: c.cachedAt, in milliseconds since the client was made
    now,          \* client: the clock, in milliseconds since the client was made
    calls,        \* client: for each caller, where its run of AnalyzeDashboard is
    fetchDash     \* client: the dashboard the runs analyse

scoreVars == <<findings, penalty, score, prevScore, lastOp>>
substVars == <<substInput, substOnce, substTwice, substPc>>
engineVars == <<dash, runs, rawExprs, parseOut>>
ruleVars == <<ruleDash, ruleID, ruleOut>>
fixVars == <<fixDoc, fixGiven, fixReport, fixOut, fixAgain, fixReport2, fixPc>>
scanVars == <<scanExpr, scanI, scanB>>
ctxVars == <<ruleVariables, ruleCardinality>>
costVars == <<costExpr, costCard, costStep, costOut>>
fetchVars == <<mu, cached, cachedAt, now, calls, fetchDash>>
auxVars == <<scanVars, ctxVars, costVars, fetchVars>>
vars == <<scoreVars, substVars, engineVars, ruleVars, fixVars, auxVars>>

(***************************************************************************)
(* Bounds of the model.                                                    *)
(***************************************************************************)
\* longest finding list of the scorer specification
MaxFindings == 7
\* longest single-severity finding list of the long-list specification
MaxLongFindings == 1330
\* most tokens an input string of the preprocessor specification is made of
MaxTokens == 3
\* most panels with targets a dashboard of the engine specification holds
MaxPanels == 3
\* most targets a panel of the engine specification holds
MaxTargets == 2
\* the concurrent runs of AnalyzeDashboard on one cardinality client
MaxCallers == 2
\* most steps of the clock
MaxTicks == 3
\* most nodes around a selector or a literal in a tree whose cost is estimated
MaxWrappers == 3
\* most template variables of a dashboard rule D3 is checked on
MaxVariables == 4
\* most panels of a dashboard that are nested in its collapsed row
MaxNested == 1
\* longest list of expressions handed to ParseAllExprs directly
MaxExprs == 3
\* most entries of the panels array of a document handed to ApplyFixes
MaxFixPanels == 1
\* most entries of the panels array of a document that is analysed, fixed
\* and analysed again
MaxFlowPanels == 2
\* longest list of findings handed to ApplyFixes directly
MaxGiven == 2

(***************************************************************************)
(* pkg/rules/types.go: severities, findings, the score.                    *)
(***************************************************************************)
Low == 0
Medium == 1
High == 2
Critical == 3

Severities == {Low, Medium, High, Critical}

\* func SeverityWeight(s Severity) int
SeverityWeight(s) ==
    CASE s = Critical -> 15
      [] s = High -> 10
      [] s = Medium -> 5
      [] s = Low -> 2
      [] OTHER -> 0

\* A Finding, with the fields the engine, the scorer and the fixer read, and
\* one history field the program does not hold: Exprs, the raw expressions of
\* the targets the finding was derived from.
Finding(rule, sev, pids, fixable, exprs) ==
    [RuleID |-> rule, Severity |-> sev, PanelIDs |-> pids, AutoFixable |-> fixable,
     Exprs |-> exprs]

\* math.Round of the positive quotient num/den: to the nearest integer,
\* halves away from zero.
Round(num, den) == (2 * num + den) \div (2 * den)

\* the constant k of ComputeScore
ScoreK == 100

\* the loop of ComputeScore: penalty += SeverityWeight(f.Severity) over fs[i..]
RECURSIVE PenaltyFrom(_, _, _)
PenaltyFrom(fs, i, acc) ==
    IF i > Len(fs) THEN acc
    ELSE PenaltyFrom(fs, i + 1, acc + SeverityWeight(fs[i].Severity))

\* the tail of ComputeScore: the score of an accumulated penalty, mutated:
\* the quotient inverted, penalty / (penalty + k)
ScoreOfPenaltyInverted(p) ==
    IF p = 0 THEN 100 ELSE Round(100 * p, p + ScoreK)

\* the tail of ComputeScore: the score of an accumulated penalty, mutated:
\* the quotient truncated instead of rounded
ScoreOfPenaltyTruncated(p) ==
    IF p = 0 THEN 100 ELSE (100 * ScoreK) \div (p + ScoreK)

\* the tail of ComputeScore: the score of an accumulated penalty
ScoreOfPenalty(p) ==
    IF p = 0 THEN 100 ELSE Round(100 * ScoreK, p + ScoreK)

\* func ComputeScore(findings []Finding) int
ComputeScore(fs) == ScoreOfPenalty(PenaltyFrom(fs, 1, 0))

(***************************************************************************)
(* Strings are sequences of one-byte strings.                              *)
(***************************************************************************)
\* s[i..] starts with p (i counts from 1)
HasPrefixAt(s, i, p) ==
    /\ i + Len(p) - 1 <= Len(s)
    /\ SubSeq(s, i, i + Len(p) - 1) = p

\* strings.Contains(s, p)
Contains(s, p) == \E i \in 1..(Len(s) + 1) : HasPrefixAt(s, i, p)

\* strings.ReplaceAll(s, old, new) from byte i on, for a non-empty old: the
\* non-overlapping occurrences of old, found left to right
RECURSIVE ReplaceAllFrom(_, _, _, _)
ReplaceAllFrom(s, i, old, new) ==
    IF i > Len(s) THEN <<>>
    ELSE IF HasPrefixAt(s, i, old)
         THEN new \o ReplaceAllFrom(s, i + Len(old), old, new)
         ELSE <<s[i]>> \o ReplaceAllFrom(s, i + 1, old, new)

\* strings.ReplaceAll(s, old, new)
ReplaceAll(s, old, new) == ReplaceAllFrom(s, 1, old, new)

\* strings.HasPrefix(s, p)
HasPrefix(s, p) == HasPrefixAt(s, 1, p)

\* strings.HasSuffix(s, p)
HasSuffix(s, p) == Len(p) <= Len(s) /\ HasPrefixAt(s, Len(s) - Len(p) + 1, p)

\* the slices of a slice of slices appended to one another, in order
RECURSIVE Flatten(_)
Flatten(ss) == IF ss = <<>> THEN <<>> ELSE Head(ss) \o Flatten(Tail(ss))

(***************************************************************************)
(* pkg/analyzer/parser.go: the preprocessor.                               *)
(***************************************************************************)
\* var grafanaDurationVars
grafanaDurationVars == <<
    <<"$", "_", "_", "r", "a", "t", "e", "_", "i", "n", "t", "e", "r", "v", "a", "l">>,
    <<"$", "_", "_", "i", "n", "t", "e", "r", "v", "a", "l">>,
    <<"$", "_", "_", "r", "a", "n", "g", "e">>,
    <<"$", "{", "_", "_", "r", "a", "t", "e", "_", "i", "n", "t", "e", "r", "v", "a", "l", "}">>,
    <<"$", "{", "_", "_", "i", "n", "t", "e", "r", "v", "a", "l", "}">>,
    <<"$", "{", "_", "_", "r", "a", "n", "g", "e", "}">> >>

\* the replacement of a duration variable: "5m"
DurationLiteral == <<"5", "m">>

\* the replacement of a variable reference: "placeholder"
Placeholder == <<"p", "l", "a", "c", "e", "h", "o", "l", "d", "e", "r">>

Letters == {"a", "b", "c", "d", "e", "f", "g", "h", "i", "j", "k", "l", "m",
            "n", "o", "p", "q", "r", "s", "t", "u", "v", "w", "x", "y", "z",
            "A", "B", "C", "D", "E", "F", "G", "H", "I", "J", "K", "L", "M",
            "N", "O", "P", "Q", "R", "S", "T", "U", "V", "W", "X", "Y", "Z"}

Digits == {"0", "1", "2", "3", "4", "5", "6", "7", "8", "9"}

\* func isIdentStart(c byte) bool
isIdentStart(c) == c \in Letters \/ c = "_"

\* func isIdentChar(c byte) bool
isIdentChar(c) == isIdentStart(c) \/ c \in Digits

\* strings.IndexByte(expr[i:], c), counted from i: the offset of the first c
\* at or after byte i, or -1
IndexByteFrom(expr, i, c) ==
    IF \E j \in i..Len(expr) : expr[j] = c
    THEN (CHOOSE j \in i..Len(expr) :
              expr[j] = c /\ \A k \in i..(j - 1) : expr[k] # c) - i
    ELSE -1

\* the inner loop of the $var form: the first j >= from with expr[j] not an
\* identifier byte, or Len(expr) + 1
IdentEnd(expr, from) ==
    IF \E j \in from..Len(expr) : ~isIdentChar(expr[j])
    THEN CHOOSE j \in from..Len(expr) :
             ~isIdentChar(expr[j]) /\ \A k \in from..(j - 1) : isIdentChar(expr[k])
    ELSE Len(expr) + 1

\* the loop of replaceVariableRefs from byte i on (i counts from 1), b being
\* what the builder holds
RECURSIVE ReplaceRefsFrom(_, _, _)
ReplaceRefsFrom(expr, i, b) ==
    IF i > Len(expr) THEN b
    ELSE IF expr[i] # "$" THEN ReplaceRefsFrom(expr, i + 1, Append(b, expr[i]))
    ELSE IF i + 1 > Len(expr) THEN ReplaceRefsFrom(expr, i + 1, Append(b, expr[i]))
    ELSE IF expr[i + 1] = "{"
         THEN LET end == IndexByteFrom(expr, i, "}")
              IN  IF end = -1
                  THEN ReplaceRefsFrom(expr, i + 1, Append(b, expr[i]))
                  ELSE ReplaceRefsFrom(expr, i + end + 1, b \o Placeholder)
    ELSE IF isIdentStart(expr[i + 1])
         THEN ReplaceRefsFrom(expr, IdentEnd(expr, i + 1), b \o Placeholder)
    ELSE ReplaceRefsFrom(expr, i + 1, Append(b, expr[i]))

\* func replaceVariableRefs(expr string) string
replaceVariableRefs(expr) == ReplaceRefsFrom(expr, 1, <<>>)

\* the first loop of ReplaceTemplateVars: the duration variables from the
\* k-th on replaced by "5m"
RECURSIVE ReplaceDurationVarsFrom(_, _)
ReplaceDurationVarsFrom(result, k) ==
    IF k > Len(grafanaDurationVars) THEN result
    ELSE ReplaceDurationVarsFrom(
             ReplaceAll(result, grafanaDurationVars[k], DurationLiteral), k + 1)

\* func ReplaceTemplateVars(expr string) string
ReplaceTemplateVars(expr) ==
    replaceVariableRefs(ReplaceDurationVarsFrom(expr, 1))

(***************************************************************************)
(* pkg/extractor: the dashboard model and its helpers.                     *)
(***************************************************************************)
\* a TargetModel, with its Expr
Target(expr) == [Expr |-> expr]

\* MaxDataPoints *int: nil, or a pointer to a value
NilInt == [Set |-> FALSE, Value |-> 0]
IntPtr(n) == [Set |-> TRUE, Value |-> n]

\* a PanelModel, with the fields the engine and its rules read
PanelWith(id, type, collapsed, mdp, targets, nested) ==
    [ID |-> id, Type |-> type, Collapsed |-> collapsed, MaxDataPoints |-> mdp,
     Targets |-> targets, NestedPanels |-> nested]

\* a PanelModel without maxDataPoints
Panel(id, type, collapsed, targets, nested) ==
    PanelWith(id, type, collapsed, NilInt, targets, nested)

\* a DashboardModel, with its Refresh, its Time.From and its Panels; it has
\* no template variable and no datasource reference
DashboardWith(refresh, from, panels) ==
    [Refresh |-> refresh, Time |-> [From |-> from], Panels |-> panels]

\* a DashboardModel with no refresh interval and no time range
Dashboard(panels) == DashboardWith(<<>>, <<>>, panels)

\* func AllPanels(dash *DashboardModel) []PanelModel
AllPanels(d) ==
    Flatten([i \in 1..Len(d.Panels) |->
                <<d.Panels[i]>> \o d.Panels[i].NestedPanels])

\* func VisiblePanels(dash *DashboardModel) []PanelModel
VisiblePanels(d) == SelectSeq(d.Panels, LAMBDA p : p.Type # "row")

\* func PanelsWithTargets(dash *DashboardModel) []PanelModel
PanelsWithTargets(d) ==
    SelectSeq(AllPanels(d),
              LAMBDA p : /\ p.Type # "row"
                         /\ \E j \in 1..Len(p.Targets) : p.Targets[j].Expr # <<>>)

\* the Expr of every target of every panel of AllPanels, in order
TargetExprs(d) ==
    LET all == AllPanels(d)
    IN  Flatten([i \in 1..Len(all) |->
                    [j \in 1..Len(all[i].Targets) |-> all[i].Targets[j].Expr]])

\* func AllTargetExprs(dash *DashboardModel) []string: the non-empty
\* expressions, each at its first occurrence
AllTargetExprs(d) ==
    LET es == TargetExprs(d)
        first == SelectSeq([i \in 1..Len(es) |-> i],
                           LAMBDA i : /\ es[i] # <<>>
                                      /\ \A j \in 1..(i - 1) : es[j] # es[i])
    IN  [k \in 1..Len(first) |-> es[first[k]]]

(***************************************************************************)
(* The expression trees of the Prometheus parser, as the rules read them.  *)
(* Durations are in seconds.                                               *)
(***************************************************************************)
\* a parser.Node: one record shape for every node type
Node(kind, name, func, op, matchers, children, range, step, grouping, matching) ==
    [Kind |-> kind, Name |-> name, Func |-> func, Op |-> op,
     LabelMatchers |-> matchers, Children |-> children, Range |-> range,
     Step |-> step, Grouping |-> grouping, MatchingLabels |-> matching]

\* a labels.Matcher; Type is "=", "!=", "=~" or "!~"
Matcher(type, name, value) == [Type |-> type, Name |-> name, Value |-> value]

\* the label name of the metric-name matcher, "__name__"
MetricNameLabel == <<"_", "_", "n", "a", "m", "e", "_", "_">>

\* *parser.VectorSelector: the parser appends the matcher of the metric name
\* to the written matchers
VectorSelector(name, matchers) ==
    Node("VectorSelector", name, "", "",
         Append(matchers, Matcher("=", MetricNameLabel, name)),
         <<>>, 0, 0, <<>>, <<>>)

\* *parser.MatrixSelector
MatrixSelector(vs, range) ==
    Node("MatrixSelector", <<>>, "", "", <<>>, <<vs>>, range, 0, <<>>, <<>>)

\* *parser.Call
Call(func, args) ==
    Node("Call", <<>>, func, "", <<>>, args, 0, 0, <<>>, <<>>)

\* *parser.AggregateExpr
AggregateExpr(op, expr, grouping) ==
    Node("AggregateExpr", <<>>, "", op, <<>>, <<expr>>, 0, 0, grouping, <<>>)

\* *parser.BinaryExpr, with the MatchingLabels of its VectorMatching
BinaryExpr(op, lhs, rhs, matching) ==
    Node("BinaryExpr", <<>>, "", op, <<>>, <<lhs, rhs>>, 0, 0, <<>>, matching)

\* *parser.SubqueryExpr
SubqueryExpr(expr, range, step) ==
    Node("SubqueryExpr", <<>>, "", "", <<>>, <<expr>>, range, step, <<>>, <<>>)

\* the absent tree of a failed parse
NoExpr == Node("none", <<>>, "", "", <<>>, <<>>, 0, 0, <<>>, <<>>)

\* parser.Inspect(node, f): the nodes f is called with, in order: the node,
\* then the nodes of each child
RECURSIVE Inspect(_)
Inspect(node) ==
    <<node>> \o Flatten([i \in 1..Len(node.Children) |-> Inspect(node.Children[i])])

\* the end of a \d* that starts at byte i
SkipDigits(s, i) ==
    IF \E j \in i..Len(s) : s[j] \notin Digits
    THEN CHOOSE j \in i..Len(s) :
             s[j] \notin Digits /\ \A k \in i..(j - 1) : s[k] \in Digits
    ELSE Len(s) + 1

\* the int a JSON number of digits is, for the numbers of this model that
\* an int field is read from
DigitValue(c) ==
    CHOOSE n \in 0..9 : <<"0", "1", "2", "3", "4", "5", "6", "7", "8", "9">>[n + 1] = c

RECURSIVE AtoiFrom(_, _, _)
AtoiFrom(digits, i, acc) ==
    IF i > Len(digits) THEN acc
    ELSE AtoiFrom(digits, i + 1, acc * 10 + DigitValue(digits[i]))

Atoi(digits) == AtoiFrom(digits, 1, 0)

\* a failed parse of a duration
DurationErr == -1

\* a duration of the expression language in seconds, for the strings of
\* digits and one unit s, m or h; DurationErr for another string
promDuration(s) ==
    LET unit == SkipDigits(s, 1)
    IN  IF unit = 1 \/ unit # Len(s) THEN DurationErr
        ELSE CASE s[unit] = "s" -> Atoi(SubSeq(s, 1, unit - 1))
               [] s[unit] = "m" -> 60 * Atoi(SubSeq(s, 1, unit - 1))
               [] s[unit] = "h" -> 3600 * Atoi(SubSeq(s, 1, unit - 1))
               [] OTHER -> DurationErr

\* the first occurrence of byte c in s from byte i on, or Len(s) + 1
IndexFrom(s, i, c) ==
    IF \E j \in i..Len(s) : s[j] = c
    THEN CHOOSE j \in i..Len(s) : s[j] = c /\ \A k \in i..(j - 1) : s[k] # c
    ELSE Len(s) + 1

\* the parser on the brackets that follow an expression, from byte i on:
\* [range] on a vector selector is a matrix selector, [range:step] and
\* [range:] are subqueries, and a subquery may follow a subquery
RECURSIVE ParseBracketsFrom(_, _, _)
ParseBracketsFrom(expr, s, i) ==
    IF i > Len(s) THEN [Err |-> FALSE, Expr |-> expr]
    ELSE IF s[i] # "[" THEN [Err |-> TRUE, Expr |-> NoExpr]
    ELSE LET close == IndexFrom(s, i, "]")
             colon == IndexFrom(s, i, ":")
         IN  IF close > Len(s) THEN [Err |-> TRUE, Expr |-> NoExpr]
             ELSE IF colon > close
             THEN (IF /\ expr.Kind = "VectorSelector"
                      /\ close = Len(s)
                      /\ promDuration(SubSeq(s, i + 1, close - 1)) > 0
                   THEN [Err |-> FALSE,
                         Expr |-> MatrixSelector(expr, promDuration(SubSeq(s, i + 1, close - 1)))]
                   ELSE [Err |-> TRUE, Expr |-> NoExpr])
             ELSE LET range == promDuration(SubSeq(s, i + 1, colon - 1))
                      step == IF colon + 1 = close THEN 0
                              ELSE promDuration(SubSeq(s, colon + 1, close - 1))
                  IN  IF range <= 0 \/ (colon + 1 < close /\ step <= 0)
                      THEN [Err |-> TRUE, Expr |-> NoExpr]
                      ELSE ParseBracketsFrom(SubqueryExpr(expr, range, step), s, close + 1)

\* the parser on the metric x followed by brackets
ParseSelectorX(s) ==
    IF Len(s) >= 2 /\ s[1] = "x" /\ s[2] = "["
    THEN ParseBracketsFrom(VectorSelector(<<"x">>, <<>>), s, 2)
    ELSE [Err |-> TRUE, Expr |-> NoExpr]

\* parser.ParseExpr(input), on the substituted strings of this model: the
\* tree, or an error. rate(sum(x)[5m]) is a range on something other than a
\* vector selector, which the parser rejects; so is every string that is not
\* an expression, an unsubstituted $__range among them. The metric x with
\* brackets is parsed bracket by bracket.
ParseExpr(input) ==
    CASE input = <<"r", "a", "t", "e", "(", "u", "p", "{", "b", "=", "~", "\"", "p", "l", "a", "c", "e", "h", "o", "l", "d", "e", "r", "\"", "}", "[", "5", "m", "]", ")">> ->
           [Err |-> FALSE,
            Expr |-> Call("rate", <<MatrixSelector(
                         VectorSelector(<<"u", "p">>, <<Matcher("=~", <<"b">>, <<"p", "l", "a", "c", "e", "h", "o", "l", "d", "e", "r">>)>>),
                         300)>>)]
      [] input = <<"r", "a", "t", "e", "(", "x", "[", "1", "h", "]", ")", "/", "y">> ->
           [Err |-> FALSE,
            Expr |-> BinaryExpr("/",
                         Call("rate", <<MatrixSelector(VectorSelector(<<"x">>, <<>>), 3600)>>),
                         VectorSelector(<<"y">>, <<>>),
                         <<>>)]
      [] input = <<"r", "a", "t", "e", "(", "x", "[", "1", "h", "]", ")", " ", "/", " ", "y">> ->
           [Err |-> FALSE,
            Expr |-> BinaryExpr("/",
                         Call("rate", <<MatrixSelector(VectorSelector(<<"x">>, <<>>), 3600)>>),
                         VectorSelector(<<"y">>, <<>>),
                         <<>>)]
      [] input = <<"u", "p", "{", "j", "o", "b", "=", "~", "\"", "a", "p", "i", "\"", "}">> ->
           [Err |-> FALSE,
            Expr |-> VectorSelector(<<"u", "p">>, <<Matcher("=~", <<"j", "o", "b">>, <<"a", "p", "i">>)>>)]
      [] input = <<"u", "p", "{", "j", "o", "b", "=", "\"", "a", "p", "i", "\"", "}">> ->
           [Err |-> FALSE,
            Expr |-> VectorSelector(<<"u", "p">>, <<Matcher("=", <<"j", "o", "b">>, <<"a", "p", "i">>)>>)]
      [] input = <<"u", "p", "{", "j", "o", "b", "=", "~", "\"", "a", ".", "*", "\"", "}">> ->
           [Err |-> FALSE,
            Expr |-> VectorSelector(<<"u", "p">>, <<Matcher("=~", <<"j", "o", "b">>, <<"a", ".", "*">>)>>)]
      [] input = <<"r", "a", "t", "e", "(", "x", "[", "5", "m", "]", ")">> ->
           [Err |-> FALSE,
            Expr |-> Call("rate", <<MatrixSelector(VectorSelector(<<"x">>, <<>>), 300)>>)]
      [] input = <<"r", "a", "t", "e", "(", "x", "{", "a", "=", "~", "\"", "[", "a", "b", "]", "\"", "}", "[", "5", "m", "]", ")">> ->
           [Err |-> FALSE,
            Expr |-> Call("rate", <<MatrixSelector(
                         VectorSelector(<<"x">>, <<Matcher("=~", <<"a">>, <<"[", "a", "b", "]">>)>>),
                         300)>>)]
      [] OTHER -> ParseSelectorX(input)

(***************************************************************************)
(* pkg/analyzer/parser.go: ParseAllExprs.                                  *)
(***************************************************************************)
\* the raw expressions of the model: one that parses once its variables are
\* substituted, one that does not parse, one that parses as it is, and the
\* empty one
ExprTemplated == <<"r", "a", "t", "e", "(", "u", "p", "{", "b", "=", "~", "\"", "$", "c", "\"", "}", "[", "$", "_", "_", "r", "a", "n", "g", "e", "]", ")">>
ExprUnparseable == <<"r", "a", "t", "e", "(", "s", "u", "m", "(", "x", ")", "[", "5", "m", "]", ")", "+", "r", "a", "t", "e", "(", "y", "[", "5", "m", "]", ")">>
ExprPlain == <<"r", "a", "t", "e", "(", "x", "[", "1", "h", "]", ")", "/", "y">>
ExprEmpty == <<>>

\* ExprPlain with insignificant whitespace
ExprSpaced == <<"r", "a", "t", "e", "(", "x", "[", "1", "h", "]", ")", " ", "/", " ", "y">>

\* the raw expressions of the documents that are fixed: a pattern matcher
\* on a value without a metacharacter, the same as an exact matcher, and
\* one on a value with metacharacters
ExprRegexPlain == <<"u", "p", "{", "j", "o", "b", "=", "~", "\"", "a", "p", "i", "\"", "}">>
ExprExact == <<"u", "p", "{", "j", "o", "b", "=", "\"", "a", "p", "i", "\"", "}">>
ExprRegexMeta == <<"u", "p", "{", "j", "o", "b", "=", "~", "\"", "a", ".", "*", "\"", "}">>

\* a rate over a literal range, the same with a bracket in a matcher in front
\* of the range, and a rate over the duration macro
ExprHardcoded == <<"r", "a", "t", "e", "(", "x", "[", "5", "m", "]", ")">>
ExprHardcodedClass == <<"r", "a", "t", "e", "(", "x", "{", "a", "=", "~", "\"", "[", "a", "b", "]", "\"", "}", "[", "5", "m", "]", ")">>
ExprMacro == <<"r", "a", "t", "e", "(", "x", "[", "$", "_", "_", "r", "a", "t", "e", "_", "i", "n", "t", "e", "r", "v", "a", "l", "]", ")">>

\* a target string that is no expression: a pattern matcher inside the
\* quotes of another
ExprQuoted == <<"=", "~", "\"", "=", "~", "\"", "\"">>

FixExprs == {ExprRegexPlain, ExprRegexMeta, ExprHardcoded, ExprHardcodedClass,
             ExprMacro, ExprQuoted, ExprTemplated}

ExprUniverse == {ExprTemplated, ExprUnparseable, ExprPlain, ExprEmpty}

\* ReplaceTemplateVars and then parser.ParseExpr, of each raw expression of
\* the model, computed once
ParsedOnce ==
    [raw \in ExprUniverse \cup {ExprSpaced, ExprExact} \cup FixExprs |->
        ParseExpr(ReplaceTemplateVars(raw))]

\* normalized := ReplaceTemplateVars(raw); expr, err := parser.ParseExpr(normalized)
ParseSubstituted(raw) ==
    IF raw \in DOMAIN ParsedOnce THEN ParsedOnce[raw]
    ELSE ParseExpr(ReplaceTemplateVars(raw))

\* parsed[raw] = expr
MapPut(m, k, v) == [x \in (DOMAIN m) \cup {k} |-> IF x = k THEN v ELSE m[x]]

\* the loop of ParseAllExprs from the i-th expression on, mutated: the loop
\* ends at the first expression that fails to parse
RECURSIVE ParseAllFromAborting(_, _, _, _)
ParseAllFromAborting(exprs, i, parsed, errors) ==
    IF i > Len(exprs) THEN [Parsed |-> parsed, Errors |-> errors]
    ELSE IF exprs[i] = <<>> THEN ParseAllFromAborting(exprs, i + 1, parsed, errors)
    ELSE LET res == ParseSubstituted(exprs[i])
         IN  IF res.Err
             THEN [Parsed |-> parsed,
                   Errors |-> Append(errors, [RawExpr |-> exprs[i]])]
             ELSE ParseAllFromAborting(exprs, i + 1,
                                       MapPut(parsed, exprs[i], res.Expr), errors)

\* the loop of ParseAllExprs from the i-th expression on, parsed and errors
\* being what it has built
RECURSIVE ParseAllFrom(_, _, _, _)
ParseAllFrom(exprs, i, parsed, errors) ==
    IF i > Len(exprs) THEN [Parsed |-> parsed, Errors |-> errors]
    ELSE IF exprs[i] = <<>> THEN ParseAllFrom(exprs, i + 1, parsed, errors)
    ELSE LET res == ParseSubstituted(exprs[i])
         IN  IF res.Err
             THEN ParseAllFrom(exprs, i + 1, parsed,
                               Append(errors, [RawExpr |-> exprs[i]]))
             ELSE ParseAllFrom(exprs, i + 1,
                               MapPut(parsed, exprs[i], res.Expr), errors)

\* func ParseAllExprs(exprs []string) (parsed map[string]parser.Expr, errors []ParseResult)
ParseAllExprs(exprs) == ParseAllFrom(exprs, 1, <<>>, <<>>)

(***************************************************************************)
(* The raw document: the tree json.Unmarshal builds in an interface{}, and *)
(* the bytes json.MarshalIndent writes from it. An object has the keys of  *)
(* its level, a key that is not in the map holding JAbsent. A number is    *)
(* its decimal digits; the string of a panel type is its name.             *)
(***************************************************************************)
JAbsent == [Kind |-> "absent", Val |-> 0]
JNull == [Kind |-> "null", Val |-> 0]
JString(s) == [Kind |-> "string", Val |-> s]
JNumber(digits) == [Kind |-> "number", Val |-> digits]
JBool(b) == [Kind |-> "bool", Val |-> b]
JArray(items) == [Kind |-> "array", Val |-> items]
JObject(fields) == [Kind |-> "object", Val |-> fields]

\* the largest integer below which every integer is a float64, and the
\* integer after it, which is not
Float64Exact == <<"9", "0", "0", "7", "1", "9", "9", "2", "5", "4", "7", "4", "0", "9", "9", "2">>
Float64Inexact == <<"9", "0", "0", "7", "1", "9", "9", "2", "5", "4", "7", "4", "0", "9", "9", "3">>

\* a JSON number read into an interface{}: the float64 nearest to it, as
\* the digits json.Marshal writes. Integers of up to 15 digits are float64
\* values; 2^53 + 1 is not, and rounds to 2^53.
Float64Digits(digits) ==
    IF digits = Float64Inexact THEN Float64Exact ELSE digits

\* json.Unmarshal(data, &dash) with dash a map[string]interface{}, and
\* json.MarshalIndent of a tree: the tree that is in the bytes, every number
\* a float64
RECURSIVE Unmarshal(_)
Unmarshal(v) ==
    CASE v.Kind = "number" -> JNumber(Float64Digits(v.Val))
      [] v.Kind = "array" -> JArray([i \in 1..Len(v.Val) |-> Unmarshal(v.Val[i])])
      [] v.Kind = "object" ->
             JObject([k \in DOMAIN v.Val |-> Unmarshal(v.Val[k])])
      [] OTHER -> v

\* a string field of a struct, read from a key: "" where the key is absent
\* or null
StringField(v) == IF v.Kind = "string" THEN v.Val ELSE <<>>

\* whether json.Unmarshal accepts the value for a field of this kind
FieldOk(v, kind) == v.Kind \in {kind, "absent", "null"}

\* a TargetModel read from an object
TargetOf(t) == Target(StringField(t.Val.expr))

\* a PanelModel read from an object, its nested panels read the same way
RECURSIVE PanelOf(_)
PanelOf(p) ==
    LET f == p.Val
    IN  PanelWith(IF f.id.Kind = "number" THEN Atoi(f.id.Val) ELSE 0,
                  IF f.type.Kind = "string" THEN f.type.Val ELSE "",
                  f.collapsed.Kind = "bool" /\ f.collapsed.Val,
                  IF f.maxDataPoints.Kind = "number"
                  THEN IntPtr(Atoi(f.maxDataPoints.Val)) ELSE NilInt,
                  IF f.targets.Kind = "array"
                  THEN [j \in 1..Len(f.targets.Val) |-> TargetOf(f.targets.Val[j])]
                  ELSE <<>>,
                  IF f.panels.Kind = "array"
                  THEN [j \in 1..Len(f.panels.Val) |-> PanelOf(f.panels.Val[j])]
                  ELSE <<>>)

\* whether the fields of a panel object have the kinds of PanelModel
RECURSIVE PanelOk(_)
PanelOk(p) ==
    /\ p.Kind = "object"
    /\ FieldOk(p.Val.id, "number")
    /\ FieldOk(p.Val.type, "string")
    /\ FieldOk(p.Val.collapsed, "bool")
    /\ FieldOk(p.Val.maxDataPoints, "number")
    /\ FieldOk(p.Val.targets, "array")
    /\ p.Val.targets.Kind = "array" =>
           \A j \in 1..Len(p.Val.targets.Val) :
               /\ p.Val.targets.Val[j].Kind = "object"
               /\ FieldOk(p.Val.targets.Val[j].Val.expr, "string")
    /\ FieldOk(p.Val.panels, "array")
    /\ p.Val.panels.Kind = "array" =>
           \A j \in 1..Len(p.Val.panels.Val) : PanelOk(p.Val.panels.Val[j])

\* func ParseDashboard(data []byte) (*DashboardModel, error)
ParseDashboard(data) ==
    LET f == data.Val
        ok == /\ data.Kind = "object"
              /\ FieldOk(f.refresh, "string")
              /\ FieldOk(f.time, "object")
              /\ f.time.Kind = "object" => FieldOk(f.time.Val.from, "string")
              /\ FieldOk(f.panels, "array")
              /\ f.panels.Kind = "array" =>
                     \A i \in 1..Len(f.panels.Val) : PanelOk(f.panels.Val[i])
    IN  IF ~ok THEN [Err |-> TRUE, Dash |-> Dashboard(<<>>)]
        ELSE [Err |-> FALSE,
              Dash |-> DashboardWith(
                  StringField(f.refresh),
                  IF f.time.Kind = "object" THEN StringField(f.time.Val.from)
                  ELSE <<>>,
                  IF f.panels.Kind = "array"
                  THEN [i \in 1..Len(f.panels.Val) |-> PanelOf(f.panels.Val[i])]
                  ELSE <<>>)]

(***************************************************************************)
(* pkg/rules: what the rules share.                                        *)
(***************************************************************************)
\* an AnalysisContext: Dashboard, Panels and ParsedExprs (a function from the
\* raw expressions that parsed to their trees). There are no Variables, no
\* Cardinality data and no PrometheusURL: the engine has no cardinality
\* client.
AnalysisContext(d, panels, parsed) ==
    [Dashboard |-> d, Panels |-> panels, ParsedExprs |-> parsed]

\* for _, panel := range ctx.Panels { for _, target := range panel.Targets {
\* ... } }: the (panel, target) pairs the two loops visit, in their order
TargetRefs(panels) ==
    Flatten([i \in 1..Len(panels) |->
                [j \in 1..Len(panels[i].Targets) |->
                    [Panel |-> panels[i], Target |-> panels[i].Targets[j]]]])

\* expr, ok := ctx.ParsedExprs[target.Expr]; if !ok { continue };
\* parser.Inspect(expr, ...): the nodes the callback is called with, none
\* for a target that has no tree
ParsedNodes(ctx, target) ==
    IF target.Expr \notin DOMAIN ctx.ParsedExprs THEN <<>>
    ELSE Inspect(ctx.ParsedExprs[target.Expr])

\* the matchers of a vector selector that are not the one of the metric name
RealMatchers(vs) ==
    Cardinality({k \in 1..Len(vs.LabelMatchers) :
                    vs.LabelMatchers[k].Name # MetricNameLabel})

\* strings.Index(s, p): the offset of the first p in s, or -1
StringsIndex(s, p) ==
    IF Contains(s, p)
    THEN (CHOOSE i \in 1..(Len(s) + 1) :
              HasPrefixAt(s, i, p) /\ \A k \in 1..(i - 1) : ~HasPrefixAt(s, k, p)) - 1
    ELSE -1

\* strings.TrimSuffix(s, p)
TrimSuffix(s, p) ==
    IF HasSuffix(s, p) THEN SubSeq(s, 1, Len(s) - Len(p)) ELSE s

\* the bytes the \s of a regular expression matches
RegexSpace == {" ", "\t", "\n", "\f", "\r"}

\* the end of a \s* that starts at byte i: the first byte from i on that is
\* not a space, or Len(s) + 1
SkipSpace(s, i) ==
    IF \E j \in i..Len(s) : s[j] \notin RegexSpace
    THEN CHOOSE j \in i..Len(s) :
             s[j] \notin RegexSpace /\ \A k \in i..(j - 1) : s[k] \in RegexSpace
    ELSE Len(s) + 1

\* the alternatives of (?:rate|irate|increase)
RateLikeNames == {<<"r", "a", "t", "e">>, <<"i", "r", "a", "t", "e">>, <<"i", "n", "c", "r", "e", "a", "s", "e">>}

\* the alternatives of (?:sum|avg|min|max|count)
AggregationNames == {<<"s", "u", "m">>, <<"a", "v", "g">>, <<"m", "i", "n">>, <<"m", "a", "x">>, <<"c", "o", "u", "n", "t">>}

(***************************************************************************)
(* The expression rules Q1 to Q8.                                          *)
(***************************************************************************)
\* Q1, the callback of Inspect
MissingFiltersNode(panel, target, node) ==
    IF node.Kind = "VectorSelector" /\ ~(RealMatchers(node) > 0)
    THEN <<Finding("Q1", Critical, <<panel.ID>>, FALSE, {target.Expr})>>
    ELSE <<>>

\* func (r *MissingFilters) Check(ctx *AnalysisContext) []Finding
MissingFiltersCheck(ctx) ==
    LET refs == TargetRefs(ctx.Panels)
    IN  Flatten([r \in 1..Len(refs) |->
            LET nodes == ParsedNodes(ctx, refs[r].Target)
            IN  Flatten([k \in 1..Len(nodes) |->
                    MissingFiltersNode(refs[r].Panel, refs[r].Target, nodes[k])])])

\* func unboundedRegexReason(value string) string: which reason, "" for none
unboundedRegexReason(value) ==
    IF value = <<".", "+">> THEN "every"
    ELSE IF HasPrefix(value, <<".", "*">>) THEN "leading"
    ELSE IF StringsIndex(TrimSuffix(value, <<".", "*">>), <<".", "*">>) > 0 THEN "mid-pattern"
    ELSE ""

\* Q2, the callback of Inspect
UnboundedRegexNode(panel, target, node) ==
    IF node.Kind # "VectorSelector" THEN <<>>
    ELSE Flatten([k \in 1..Len(node.LabelMatchers) |->
             LET m == node.LabelMatchers[k]
             IN  IF /\ m.Name # MetricNameLabel
                    /\ m.Type = "=~"
                    /\ unboundedRegexReason(m.Value) # ""
                 THEN <<Finding("Q2", High, <<panel.ID>>, FALSE, {target.Expr})>>
                 ELSE <<>>])

\* func (r *UnboundedRegex) Check(ctx *AnalysisContext) []Finding
UnboundedRegexCheck(ctx) ==
    LET refs == TargetRefs(ctx.Panels)
    IN  Flatten([r \in 1..Len(refs) |->
            LET nodes == ParsedNodes(ctx, refs[r].Target)
            IN  Flatten([k \in 1..Len(nodes) |->
                    UnboundedRegexNode(refs[r].Panel, refs[r].Target, nodes[k])])])

\* the metacharacters of containsRegexMeta
RegexMeta == {".", "*", "+", "?", "(", ")", "[", "]", "{", "}", "|", "^", "$", "\\"}

\* func containsRegexMeta(s string) bool
containsRegexMeta(s) == \E i \in 1..Len(s) : s[i] \in RegexMeta

\* Q3, the callback of Inspect
RegexEqualityNode(panel, target, node) ==
    IF node.Kind # "VectorSelector" THEN <<>>
    ELSE Flatten([k \in 1..Len(node.LabelMatchers) |->
             LET m == node.LabelMatchers[k]
             IN  IF m.Type = "=~" /\ ~containsRegexMeta(m.Value)
                 THEN <<Finding("Q3", Medium, <<panel.ID>>, TRUE, {target.Expr})>>
                 ELSE <<>>])

\* func (r *RegexEquality) Check(ctx *AnalysisContext) []Finding
RegexEqualityCheck(ctx) ==
    LET refs == TargetRefs(ctx.Panels)
    IN  Flatten([r \in 1..Len(refs) |->
            LET nodes == ParsedNodes(ctx, refs[r].Target)
            IN  Flatten([k \in 1..Len(nodes) |->
                    RegexEqualityNode(refs[r].Panel, refs[r].Target, nodes[k])])])

\* var highCardinalityLabels
highCardinalityLabels ==
    {"pod", "container", "instance", "pod_name", "container_name", "id", "uid"}

\* Q4, the callback of Inspect
HighCardinalityGroupingNode(panel, target, node) ==
    IF node.Kind # "AggregateExpr" THEN <<>>
    ELSE (IF Len(node.Grouping) > 3
          THEN <<Finding("Q4", High, <<panel.ID>>, FALSE, {target.Expr})>>
          ELSE <<>>)
         \o Flatten([k \in 1..Len(node.Grouping) |->
                IF node.Grouping[k] \in highCardinalityLabels
                THEN <<Finding("Q4", High, <<panel.ID>>, FALSE, {target.Expr})>>
                ELSE <<>>])

\* func (r *HighCardinalityGrouping) Check(ctx *AnalysisContext) []Finding
HighCardinalityGroupingCheck(ctx) ==
    LET refs == TargetRefs(ctx.Panels)
    IN  Flatten([r \in 1..Len(refs) |->
            LET nodes == ParsedNodes(ctx, refs[r].Target)
            IN  Flatten([k \in 1..Len(nodes) |->
                    HighCardinalityGroupingNode(refs[r].Panel, refs[r].Target, nodes[k])])])

\* func hasUnfilteredSelector(expr parser.Expr) bool
hasUnfilteredSelector(expr) ==
    LET nodes == Inspect(expr)
    IN  \E k \in 1..Len(nodes) :
            nodes[k].Kind = "VectorSelector" /\ RealMatchers(nodes[k]) <= 0

\* Q5, the callback of Inspect
LateAggregationNode(panel, target, node) ==
    IF node.Kind = "AggregateExpr" /\ hasUnfilteredSelector(node.Children[1])
    THEN <<Finding("Q5", Medium, <<panel.ID>>, FALSE, {target.Expr})>>
    ELSE <<>>

\* func (r *LateAggregation) Check(ctx *AnalysisContext) []Finding
LateAggregationCheck(ctx) ==
    LET refs == TargetRefs(ctx.Panels)
    IN  Flatten([r \in 1..Len(refs) |->
            LET nodes == ParsedNodes(ctx, refs[r].Target)
            IN  Flatten([k \in 1..Len(nodes) |->
                    LateAggregationNode(refs[r].Panel, refs[r].Target, nodes[k])])])

\* var rateFuncNames
rateFuncNames == {"rate", "irate", "increase", "delta", "idelta"}

\* const threshold = 10 * time.Minute
LongRateThreshold == 600

\* Q6, the callback of Inspect
LongRateRangeNode(panel, target, node) ==
    IF /\ node.Kind = "Call"
       /\ node.Func \in rateFuncNames
       /\ Len(node.Children) # 0
       /\ node.Children[1].Kind = "MatrixSelector"
       /\ node.Children[1].Range > LongRateThreshold
    THEN <<Finding("Q6", Medium, <<panel.ID>>, FALSE, {target.Expr})>>
    ELSE <<>>

\* func (r *LongRateRange) Check(ctx *AnalysisContext) []Finding
LongRateRangeCheck(ctx) ==
    LET refs == TargetRefs(ctx.Panels)
    IN  Flatten([r \in 1..Len(refs) |->
            LET nodes == ParsedNodes(ctx, refs[r].Target)
            IN  Flatten([k \in 1..Len(nodes) |->
                    LongRateRangeNode(refs[r].Panel, refs[r].Target, nodes[k])])])

\* var rateFuncsForInterval
rateFuncsForInterval == {"rate", "irate", "increase"}

\* hardcodedRangeRe.MatchString(s), for the regular expression
\* (?:rate|irate|increase)\s*\([^)]*\[\d+[smh]\]
hardcodedRangeReMatch(s) ==
    \E i \in 1..Len(s), fn \in RateLikeNames :
        /\ HasPrefixAt(s, i, fn)
        /\ LET open == SkipSpace(s, i + Len(fn))
           IN  /\ open <= Len(s)
               /\ s[open] = "("
               /\ \E k \in (open + 1)..Len(s) :
                      /\ s[k] = "["
                      /\ \A t \in (open + 1)..(k - 1) : s[t] # ")"
                      /\ LET unit == SkipDigits(s, k + 1)
                         IN  /\ unit > k + 1
                             /\ unit + 1 <= Len(s)
                             /\ s[unit] \in {"s", "m", "h"}
                             /\ s[unit + 1] = "]"

\* Q7, one turn of the loop over the targets, mutated: the target's tree is
\* neither looked up nor walked
HardcodedIntervalTargetUnparsed(ctx, panel, target) ==
    IF \/ Contains(target.Expr, <<"$", "_", "_", "r", "a", "t", "e", "_", "i", "n", "t", "e", "r", "v", "a", "l">>)
       \/ Contains(target.Expr, <<"$", "_", "_", "i", "n", "t", "e", "r", "v", "a", "l">>)
    THEN <<>>
    ELSE IF hardcodedRangeReMatch(target.Expr)
    THEN <<Finding("Q7", Medium, <<panel.ID>>, TRUE, {target.Expr})>>
    ELSE <<>>

\* Q7, one turn of the loop over the targets
HardcodedIntervalTarget(ctx, panel, target) ==
    IF target.Expr \notin DOMAIN ctx.ParsedExprs THEN <<>>
    ELSE LET nodes == Inspect(ctx.ParsedExprs[target.Expr])
             hasRateFunc ==
                 \E k \in 1..Len(nodes) :
                     nodes[k].Kind = "Call" /\ nodes[k].Func \in rateFuncsForInterval
         IN  IF ~hasRateFunc THEN <<>>
             ELSE IF \/ Contains(target.Expr, <<"$", "_", "_", "r", "a", "t", "e", "_", "i", "n", "t", "e", "r", "v", "a", "l">>)
                     \/ Contains(target.Expr, <<"$", "_", "_", "i", "n", "t", "e", "r", "v", "a", "l">>)
             THEN <<>>
             ELSE IF hardcodedRangeReMatch(target.Expr)
             THEN <<Finding("Q7", Medium, <<panel.ID>>, TRUE, {target.Expr})>>
             ELSE <<>>

\* func (r *HardcodedInterval) Check(ctx *AnalysisContext) []Finding
HardcodedIntervalCheck(ctx) ==
    LET refs == TargetRefs(ctx.Panels)
    IN  Flatten([r \in 1..Len(refs) |->
            HardcodedIntervalTarget(ctx, refs[r].Panel, refs[r].Target)])

\* func isNestedSubquery(expr parser.Expr) bool
isNestedSubquery(expr) ==
    LET nodes == Inspect(expr)
    IN  \E k \in 1..Len(nodes) : nodes[k].Kind = "SubqueryExpr"

\* Q8, the callback of Inspect: (a) a nested subquery, (b) a step under a
\* minute over a range above an hour, (c) a range/step ratio above 360
SubqueryAbuseNode(panel, target, node) ==
    IF node.Kind # "SubqueryExpr" THEN <<>>
    ELSE (IF isNestedSubquery(node.Children[1])
          THEN <<Finding("Q8", High, <<panel.ID>>, FALSE, {target.Expr})>>
          ELSE <<>>)
         \o (IF node.Step > 0 /\ node.Step < 60 /\ node.Range > 3600
             THEN <<Finding("Q8", High, <<panel.ID>>, FALSE, {target.Expr})>>
             ELSE <<>>)
         \o (IF node.Step > 0 /\ node.Range \div node.Step > 360
             THEN <<Finding("Q8", High, <<panel.ID>>, FALSE, {target.Expr})>>
             ELSE <<>>)

\* func (r *SubqueryAbuse) Check(ctx *AnalysisContext) []Finding
SubqueryAbuseCheck(ctx) ==
    LET refs == TargetRefs(ctx.Panels)
    IN  Flatten([r \in 1..Len(refs) |->
            LET nodes == ParsedNodes(ctx, refs[r].Target)
            IN  Flatten([k \in 1..Len(nodes) |->
                    SubqueryAbuseNode(refs[r].Panel, refs[r].Target, nodes[k])])])

(***************************************************************************)
(* The duplicate rules Q9 and D8. Each fills a map and ranges over it; the *)
(* order in which a range visits the keys of a map is not fixed, and it is *)
(* an input of the rule here. A key whose group is skipped leaves no       *)
(* trace, so the order is one of the keys that emit a finding.             *)
(***************************************************************************)
\* the orders a range over a map with these keys can visit them in
MapOrders(keys) ==
    {o \in [1..Cardinality(keys) -> keys] :
        \A i, j \in 1..Cardinality(keys) : i # j => o[i] # o[j]}

\* the deduplication of the panel ids, mutated: every id is kept
FirstOccurrencesKeepAll(s) == s

\* the values of a sequence, each at its first occurrence
FirstOccurrences(s) ==
    LET first == SelectSeq([i \in 1..Len(s) |-> i],
                           LAMBDA i : \A j \in 1..(i - 1) : s[j] # s[i])
    IN  [k \in 1..Len(first) |-> s[first[k]]]

\* func normalizeExpr(expr string) string
normalizeExpr(expr) == SelectSeq(expr, LAMBDA r : r \notin {" ", "\t", "\n", "\r"})

\* func hashExpr(expr string) string: the SHA-256 digest of the string;
\* distinct strings have distinct digests
hashExpr(expr) == <<"sha256", expr>>

\* Q9, the first loop: what is appended to the groups of exprPanels, in order
DuplicateExpressionsRefs(ctx) ==
    LET refs == TargetRefs(ctx.Panels)
    IN  Flatten([r \in 1..Len(refs) |->
            IF normalizeExpr(refs[r].Target.Expr) = <<>> THEN <<>>
            ELSE <<[Key |-> hashExpr(normalizeExpr(refs[r].Target.Expr)),
                    ID |-> refs[r].Panel.ID, Expr |-> refs[r].Target.Expr]>>])

\* Q9, one turn of the second loop, over the group of key
DuplicateExpressionsGroup(refs, key) ==
    LET panels == SelectSeq(refs, LAMBDA r : r.Key = key)
        ids == FirstOccurrences([i \in 1..Len(panels) |-> panels[i].ID])
    IN  IF Len(panels) <= 2 THEN <<>>
        ELSE IF Len(ids) <= 2 THEN <<>>
        ELSE <<Finding("Q9", High, ids, FALSE,
                       {panels[i].Expr : i \in 1..Len(panels)})>>

\* Q9: the keys of exprPanels whose group emits a finding
DuplicateExpressionsKeys(ctx) ==
    LET refs == DuplicateExpressionsRefs(ctx)
    IN  {k \in {refs[i].Key : i \in 1..Len(refs)} :
            DuplicateExpressionsGroup(refs, k) # <<>>}

\* func (r *DuplicateExpressions) Check(ctx *AnalysisContext) []Finding, the
\* range over exprPanels visiting the keys in this order
DuplicateExpressionsCheck(ctx, order) ==
    LET refs == DuplicateExpressionsRefs(ctx)
    IN  Flatten([k \in 1..Len(order) |-> DuplicateExpressionsGroup(refs, order[k])])

\* the bytes strings.TrimSpace trims, of those the strings of the model hold
SpaceBytes == {" ", "\t", "\n", "\f", "\r"}

\* strings.TrimSpace(s)
TrimSpace(s) ==
    IF \A i \in 1..Len(s) : s[i] \in SpaceBytes THEN <<>>
    ELSE LET lo == CHOOSE i \in 1..Len(s) :
                       s[i] \notin SpaceBytes /\ \A k \in 1..(i - 1) : s[k] \in SpaceBytes
             hi == CHOOSE i \in 1..Len(s) :
                       s[i] \notin SpaceBytes /\ \A k \in (i + 1)..Len(s) : s[k] \in SpaceBytes
         IN  SubSeq(s, lo, hi)

\* D8, the first loop: what is appended to the groups of exprPanels, in order
DuplicateQueriesRefs(ctx) ==
    LET refs == TargetRefs(SelectSeq(AllPanels(ctx.Dashboard),
                                     LAMBDA p : p.Type # "row"))
    IN  Flatten([r \in 1..Len(refs) |->
            IF TrimSpace(refs[r].Target.Expr) = <<>> THEN <<>>
            ELSE <<[Key |-> TrimSpace(refs[r].Target.Expr),
                    ID |-> refs[r].Panel.ID, Expr |-> refs[r].Target.Expr]>>])

\* D8, one turn of the second loop, over the group of key expr
DuplicateQueriesGroup(refs, expr) ==
    LET panels == SelectSeq(refs, LAMBDA r : r.Key = expr)
    IN  IF Len(panels) <= 2 THEN <<>>
        ELSE <<Finding("D8", Medium, [i \in 1..Len(panels) |-> panels[i].ID], FALSE,
                       {panels[i].Expr : i \in 1..Len(panels)})>>

\* D8: the keys of exprPanels whose group emits a finding
DuplicateQueriesKeys(ctx) ==
    LET refs == DuplicateQueriesRefs(ctx)
    IN  {k \in {refs[i].Key : i \in 1..Len(refs)} :
            DuplicateQueriesGroup(refs, k) # <<>>}

\* func (r *DuplicateQueries) Check(ctx *AnalysisContext) []Finding, the
\* range over exprPanels visiting the keys in this order
DuplicateQueriesCheck(ctx, order) ==
    LET refs == DuplicateQueriesRefs(ctx)
    IN  Flatten([k \in 1..Len(order) |-> DuplicateQueriesGroup(refs, order[k])])

(***************************************************************************)
(* The expression rules Q10 to Q12 and the dashboard rules D1 and D10.     *)
(***************************************************************************)
\* incorrectAggOrderRe.MatchString(s), for the regular expression
\* (?:rate|irate|increase)\s*\(\s*(?:sum|avg|min|max|count)\s*\(
incorrectAggOrderReMatch(s) ==
    \E i \in 1..Len(s), fn \in RateLikeNames :
        /\ HasPrefixAt(s, i, fn)
        /\ LET open == SkipSpace(s, i + Len(fn))
           IN  /\ open <= Len(s)
               /\ s[open] = "("
               /\ \E agg \in AggregationNames :
                      LET at == SkipSpace(s, open + 1)
                          inner == SkipSpace(s, at + Len(agg))
                      IN  /\ HasPrefixAt(s, at, agg)
                          /\ inner <= Len(s)
                          /\ s[inner] = "("

\* func isRateLikeFunc(name string) bool
isRateLikeFunc(name) == name \in {"rate", "irate", "increase"}

\* func containsAggregateExpr(expr parser.Expr) bool
containsAggregateExpr(expr) ==
    LET nodes == Inspect(expr)
    IN  \E k \in 1..Len(nodes) : nodes[k].Kind = "AggregateExpr"

\* Q10, strategy 2, the callback of Inspect: a rate-like call with a subquery
\* argument that holds an aggregation
IncorrectAggregationNode(panel, target, node) ==
    IF node.Kind = "Call" /\ isRateLikeFunc(node.Func)
    THEN Flatten([k \in 1..Len(node.Children) |->
             IF /\ node.Children[k].Kind = "SubqueryExpr"
                /\ containsAggregateExpr(node.Children[k].Children[1])
             THEN <<Finding("Q10", Medium, <<panel.ID>>, FALSE, {target.Expr})>>
             ELSE <<>>])
    ELSE <<>>

\* Q10, one turn of the loop over the targets: strategy 1 on the raw string
\* and, where it does not match, strategy 2 on the tree
IncorrectAggregationTarget(ctx, panel, target) ==
    IF incorrectAggOrderReMatch(target.Expr)
    THEN <<Finding("Q10", Medium, <<panel.ID>>, FALSE, {target.Expr})>>
    ELSE (LET nodes == ParsedNodes(ctx, target)
          IN  Flatten([k \in 1..Len(nodes) |->
                  IncorrectAggregationNode(panel, target, nodes[k])]))

\* func (r *IncorrectAggregation) Check(ctx *AnalysisContext) []Finding
IncorrectAggregationCheck(ctx) ==
    LET refs == TargetRefs(ctx.Panels)
    IN  Flatten([r \in 1..Len(refs) |->
            IncorrectAggregationTarget(ctx, refs[r].Panel, refs[r].Target)])

\* var knownGaugePrefixes
knownGaugePrefixes ==
    {<<"g", "o", "_", "g", "o", "r", "o", "u", "t", "i", "n", "e", "s">>, <<"g", "o", "_", "t", "h", "r", "e", "a", "d", "s">>, <<"g", "o", "_", "m", "e", "m", "s", "t", "a", "t", "s", "_">>, <<"g", "o", "_", "i", "n", "f", "o">>,
     <<"p", "r", "o", "c", "e", "s", "s", "_", "r", "e", "s", "i", "d", "e", "n", "t", "_", "m", "e", "m", "o", "r", "y", "_", "b", "y", "t", "e", "s">>, <<"p", "r", "o", "c", "e", "s", "s", "_", "v", "i", "r", "t", "u", "a", "l", "_", "m", "e", "m", "o", "r", "y", "_", "b", "y", "t", "e", "s">>,
     <<"p", "r", "o", "c", "e", "s", "s", "_", "o", "p", "e", "n", "_", "f", "d", "s">>, <<"p", "r", "o", "c", "e", "s", "s", "_", "m", "a", "x", "_", "f", "d", "s">>, <<"n", "o", "d", "e", "_", "m", "e", "m", "o", "r", "y", "_">>, <<"n", "o", "d", "e", "_", "f", "i", "l", "e", "s", "y", "s", "t", "e", "m", "_">>,
     <<"n", "o", "d", "e", "_", "l", "o", "a", "d">>, <<"n", "o", "d", "e", "_", "t", "i", "m", "e", "_", "s", "e", "c", "o", "n", "d", "s">>, <<"n", "o", "d", "e", "_", "b", "o", "o", "t", "_", "t", "i", "m", "e", "_", "s", "e", "c", "o", "n", "d", "s">>,
     <<"p", "r", "o", "m", "e", "t", "h", "e", "u", "s", "_", "t", "s", "d", "b", "_", "h", "e", "a", "d", "_", "s", "e", "r", "i", "e", "s">>, <<"p", "r", "o", "m", "e", "t", "h", "e", "u", "s", "_", "t", "s", "d", "b", "_", "h", "e", "a", "d", "_", "c", "h", "u", "n", "k", "s">>, <<"u", "p">>}

\* func isLikelyGauge(name string) bool
isLikelyGauge(name) ==
    IF \/ HasSuffix(name, <<"_", "t", "o", "t", "a", "l">>) \/ HasSuffix(name, <<"_", "c", "o", "u", "n", "t">>)
       \/ HasSuffix(name, <<"_", "s", "u", "m">>) \/ HasSuffix(name, <<"_", "b", "u", "c", "k", "e", "t">>)
    THEN FALSE
    ELSE \E prefix \in knownGaugePrefixes : HasPrefix(name, prefix)

\* the callback of extractMetricName over nodes[k..], name being what it
\* has set so far
RECURSIVE MetricNameFrom(_, _, _)
MetricNameFrom(nodes, k, name) ==
    IF k > Len(nodes) THEN name
    ELSE IF nodes[k].Kind # "VectorSelector" THEN MetricNameFrom(nodes, k + 1, name)
    ELSE IF nodes[k].Name # <<>> THEN MetricNameFrom(nodes, k + 1, nodes[k].Name)
    ELSE LET ms == nodes[k].LabelMatchers
             named == {i \in 1..Len(ms) : ms[i].Name = MetricNameLabel}
         IN  IF named = {} THEN MetricNameFrom(nodes, k + 1, name)
             ELSE MetricNameFrom(nodes, k + 1,
                      ms[CHOOSE i \in named : \A j \in named : i <= j].Value)

\* func extractMetricName(expr parser.Expr) string
extractMetricName(expr) == MetricNameFrom(Inspect(expr), 1, <<>>)

\* Q11, the callback of Inspect
RateOnGaugeNode(panel, target, node) ==
    IF /\ node.Kind = "Call"
       /\ node.Func \in {"rate", "irate"}
       /\ Len(node.Children) # 0
       /\ extractMetricName(node.Children[1]) # <<>>
       /\ isLikelyGauge(extractMetricName(node.Children[1]))
    THEN <<Finding("Q11", Medium, <<panel.ID>>, FALSE, {target.Expr})>>
    ELSE <<>>

\* func (r *RateOnGauge) Check(ctx *AnalysisContext) []Finding
RateOnGaugeCheck(ctx) ==
    LET refs == TargetRefs(ctx.Panels)
    IN  Flatten([r \in 1..Len(refs) |->
            LET nodes == ParsedNodes(ctx, refs[r].Target)
            IN  Flatten([k \in 1..Len(nodes) |->
                    RateOnGaugeNode(refs[r].Panel, refs[r].Target, nodes[k])])])

\* func primaryMetricName(expr parser.Expr) string
RECURSIVE primaryMetricName(_)
primaryMetricName(expr) ==
    CASE expr.Kind = "VectorSelector" -> expr.Name
      [] expr.Kind = "MatrixSelector" -> primaryMetricName(expr.Children[1])
      [] expr.Kind = "Call" /\ Len(expr.Children) > 0 ->
             primaryMetricName(expr.Children[1])
      [] OTHER -> <<>>

\* Q12, the callback of Inspect
ImpossibleVectorMatchingNode(panel, target, node) ==
    IF /\ node.Kind = "BinaryExpr"
       /\ node.Op \notin {"and", "or", "unless"}
       /\ ~(Len(node.MatchingLabels) > 0)
       /\ primaryMetricName(node.Children[1]) # <<>>
       /\ primaryMetricName(node.Children[2]) # <<>>
       /\ primaryMetricName(node.Children[1]) # primaryMetricName(node.Children[2])
    THEN <<Finding("Q12", Medium, <<panel.ID>>, FALSE, {target.Expr})>>
    ELSE <<>>

\* func (r *ImpossibleVectorMatching) Check(ctx *AnalysisContext) []Finding
ImpossibleVectorMatchingCheck(ctx) ==
    LET refs == TargetRefs(ctx.Panels)
    IN  Flatten([r \in 1..Len(refs) |->
            LET nodes == ParsedNodes(ctx, refs[r].Target)
            IN  Flatten([k \in 1..Len(nodes) |->
                    ImpossibleVectorMatchingNode(refs[r].Panel, refs[r].Target, nodes[k])])])

\* the default Threshold of TooManyPanels
TooManyPanelsThreshold == 25

\* func (r *TooManyPanels) Check(ctx *AnalysisContext) []Finding
TooManyPanelsCheck(ctx) ==
    IF Len(VisiblePanels(ctx.Dashboard)) <= TooManyPanelsThreshold THEN <<>>
    ELSE <<Finding("D1", High, <<>>, FALSE, {})>>

\* func (r *NoCollapsedRows) Check(ctx *AnalysisContext) []Finding
NoCollapsedRowsCheck(ctx) ==
    LET allPanels == AllPanels(ctx.Dashboard)
        totalPanels == Cardinality({i \in 1..Len(allPanels) : allPanels[i].Type # "row"})
        top == ctx.Dashboard.Panels
    IN  IF totalPanels < 5 THEN <<>>
        ELSE IF \E i \in 1..Len(top) : top[i].Type = "row" /\ top[i].Collapsed THEN <<>>
        ELSE <<Finding("D10", Medium, <<>>, FALSE, {})>>

(***************************************************************************)
(* The dashboard rules D5, D6 and D7. A time.Duration is its milliseconds. *)
(***************************************************************************)
Millisecond == 1
Second == 1000 * Millisecond
Minute == 60 * Second
Hour == 60 * Minute

\* the factor of a unit of time.ParseDuration, 0 for a string that is not
\* one; the units below the millisecond are in no string of this model
UnitOfParseDuration(u) ==
    CASE u = <<"m", "s">> -> Millisecond
      [] u = <<"s">> -> Second
      [] u = <<"m">> -> Minute
      [] u = <<"h">> -> Hour
      [] OTHER -> 0

\* the end of the unit that starts at byte i: the first digit or point from
\* i on, or Len(s) + 1
UnitEnd(s, i) ==
    IF \E j \in i..Len(s) : s[j] \in Digits \cup {"."}
    THEN CHOOSE j \in i..Len(s) :
             /\ s[j] \in Digits \cup {"."}
             /\ \A k \in i..(j - 1) : s[k] \notin Digits \cup {"."}
    ELSE Len(s) + 1

\* time.ParseDuration(s) from byte i on, for the strings without a sign and
\* without a fraction: groups of digits and a unit
RECURSIVE ParseDurationFrom(_, _, _)
ParseDurationFrom(s, i, acc) ==
    IF i > Len(s) THEN acc
    ELSE LET unit == SkipDigits(s, i)
             next == UnitEnd(s, unit)
             factor == UnitOfParseDuration(SubSeq(s, unit, next - 1))
         IN  IF unit = i \/ factor = 0 THEN DurationErr
             ELSE ParseDurationFrom(s, next,
                      acc + AtoiFrom(SubSeq(s, i, unit - 1), 1, 0) * factor)

\* time.ParseDuration(s)
ParseDuration(s) ==
    IF s = <<>> THEN DurationErr
    ELSE IF s = <<"0">> THEN 0
    ELSE ParseDurationFrom(s, 1, 0)

\* func parseGrafanaDuration(s string) (time.Duration, error)
parseGrafanaDuration(s) ==
    IF s = <<>> THEN DurationErr
    ELSE IF ParseDuration(s) # DurationErr THEN ParseDuration(s)
    ELSE LET i == SkipDigits(s, 1)
             n == AtoiFrom(SubSeq(s, 1, i - 1), 1, 0)
             suffix == SubSeq(s, i, Len(s))
         IN  IF i = 1 \/ i > Len(s) THEN DurationErr
             ELSE CASE suffix = <<"s">> -> n * Second
                    [] suffix = <<"m">> -> n * Minute
                    [] suffix = <<"h">> -> n * Hour
                    [] suffix = <<"d">> -> n * 24 * Hour
                    [] suffix = <<"w">> -> n * 7 * 24 * Hour
                    [] suffix = <<"m", "s">> -> n * Millisecond
                    [] OTHER -> DurationErr

\* func (r *RefreshTooFrequent) minRefresh() time.Duration, MinRefresh zero
minRefresh == 30 * Second

\* func (r *RefreshTooFrequent) Check(ctx *AnalysisContext) []Finding
RefreshTooFrequentCheck(ctx) ==
    LET raw == ctx.Dashboard.Refresh
        d == parseGrafanaDuration(raw)
    IN  IF raw = <<>> THEN <<>>
        ELSE IF d = DurationErr THEN <<>>
        ELSE IF d >= minRefresh THEN <<>>
        ELSE <<Finding("D5", Medium, <<>>, TRUE, {})>>

\* func parseRelativeRange(from string) (time.Duration, error)
parseRelativeRange(from) ==
    IF Len(from) < 5 \/ SubSeq(from, 1, 4) # <<"n", "o", "w", "-">> THEN DurationErr
    ELSE parseGrafanaDuration(SubSeq(from, 5, Len(from)))

\* func (r *RangeTooWide) maxRange() time.Duration, MaxRange zero
maxRange == 24 * Hour

\* func (r *RangeTooWide) Check(ctx *AnalysisContext) []Finding
RangeTooWideCheck(ctx) ==
    LET from == ctx.Dashboard.Time.From
        d == parseRelativeRange(from)
    IN  IF from = <<>> THEN <<>>
        ELSE IF d = DurationErr THEN <<>>
        ELSE IF d <= maxRange THEN <<>>
        ELSE <<Finding("D6", Medium, <<>>, TRUE, {})>>

\* var panelTypesNeedingMaxDataPoints
panelTypesNeedingMaxDataPoints == {"timeseries", "graph", "barchart", "heatmap"}

\* func (r *MissingMaxDataPoints) Check(ctx *AnalysisContext) []Finding
MissingMaxDataPointsCheck(ctx) ==
    LET allPanels == AllPanels(ctx.Dashboard)
    IN  Flatten([i \in 1..Len(allPanels) |->
            IF allPanels[i].Type \notin panelTypesNeedingMaxDataPoints THEN <<>>
            ELSE IF allPanels[i].MaxDataPoints.Set /\ allPanels[i].MaxDataPoints.Value > 0
            THEN <<>>
            ELSE <<Finding("D7", Medium, <<allPanels[i].ID>>, TRUE, {})>>])

(***************************************************************************)
(* pkg/cardinality: the data of the TSDB status API, and rule D3.          *)
(***************************************************************************)
\* const DefaultHeuristicSeries
DefaultHeuristicSeries == 1000

\* a map[string]int without a key
NoCounts == [k \in {} |-> 0]

\* a *CardinalityData that is nil
NilCardinality ==
    [Nil |-> TRUE, SeriesByMetric |-> NoCounts, ValuesByLabel |-> NoCounts,
     HeadSeriesCount |-> 0]

\* a *CardinalityData that is not nil
CardinalityData(seriesByMetric, valuesByLabel, headSeriesCount) ==
    [Nil |-> FALSE, SeriesByMetric |-> seriesByMetric,
     ValuesByLabel |-> valuesByLabel, HeadSeriesCount |-> headSeriesCount]

\* func (c *CardinalityData) EstimatedSeries(metricName string, defaultCount int) int
EstimatedSeries(c, metricName, defaultCount) ==
    IF c.Nil THEN defaultCount
    ELSE IF metricName \in DOMAIN c.SeriesByMetric THEN c.SeriesByMetric[metricName]
    ELSE defaultCount

\* func (c *CardinalityData) LabelCardinality(labelName string, defaultCount int) int
LabelCardinality(c, labelName, defaultCount) ==
    IF c.Nil THEN defaultCount
    ELSE IF labelName \in DOMAIN c.ValuesByLabel THEN c.ValuesByLabel[labelName]
    ELSE defaultCount

\* a TemplateVariable: its name and its two switches
TemplateVariable(name, multi, includeAll) ==
    [Name |-> name, Multi |-> multi, IncludeAll |-> includeAll]

\* const defaultValuesPerVariable
defaultValuesPerVariable == 100

\* func (r *VariableExplosion) threshold() int, Threshold zero
threshold == 50

\* the loop of VariableExplosion.Check over the n explosive variables that
\* are left: product *= defaultValuesPerVariable, cut at 1_000_000
RECURSIVE CrossProductFrom(_, _)
CrossProductFrom(n, product) ==
    IF n = 0 THEN product
    ELSE IF product * defaultValuesPerVariable > 1000000 THEN 1000000
    ELSE CrossProductFrom(n - 1, product * defaultValuesPerVariable)

\* func (r *VariableExplosion) Check(ctx *AnalysisContext) []Finding; ctx is
\* the Variables and the Cardinality of the context
VariableExplosionCheck(ctx) ==
    LET explosiveVars == SelectSeq(ctx.Variables, LAMBDA v : v.IncludeAll /\ v.Multi)
        product == CrossProductFrom(Len(explosiveVars), 1)
    IN  IF Len(explosiveVars) = 0 THEN <<>>
        ELSE IF product <= threshold THEN <<>>
        ELSE <<Finding("D3", Critical, <<>>, FALSE, {})>>

(***************************************************************************)
(* pkg/analyzer: the cost estimate of a query. A float64 cost is the       *)
(* fraction <<numerator, denominator>> in lowest terms that the arithmetic *)
(* on the reals gives; the tests compare costs within 0.01.                *)
(***************************************************************************)
\* the greatest common divisor of two naturals, GCD(0, b) being b
RECURSIVE GCD(_, _)
GCD(a, b) == IF b = 0 THEN a ELSE GCD(b, a % b)

\* the fraction n/d in lowest terms, d positive and n not negative
Frac(n, d) == <<n \div GCD(n, d), d \div GCD(n, d)>>

FracAdd(p, q) == Frac(p[1] * q[2] + q[1] * p[2], p[2] * q[2])

FracMul(p, q) == Frac(p[1] * q[1], p[2] * q[2])

FracLess(p, q) == p[1] * q[2] < q[1] * p[2]

\* var functionCosts
functionCosts ==
    [name \in {"rate", "irate", "increase", "delta", "idelta"} |-> Frac(1, 1)]
    @@ [name \in {"histogram_quantile", "quantile_over_time"} |-> Frac(2, 1)]
    @@ [name \in {"sort", "sort_desc"} |-> Frac(1, 2)]
    @@ [name \in {"label_replace", "label_join"} |-> Frac(3, 10)]
    @@ [name \in {"avg_over_time", "sum_over_time", "max_over_time", "min_over_time",
                  "count_over_time", "stddev_over_time"} |-> Frac(3, 2)]
    @@ [name \in {"absent", "absent_over_time"} |-> Frac(1, 10)]
    @@ [name \in {"vector", "scalar", "time"} |-> Frac(1, 100)]

\* func functionCost(name string) float64
functionCost(name) ==
    IF name \in DOMAIN functionCosts THEN functionCosts[name] ELSE Frac(1, 1)

\* the sum of a list of costs
RECURSIVE FracSum(_)
FracSum(costs) ==
    IF costs = <<>> THEN Frac(0, 1)
    ELSE FracAdd(Head(costs), FracSum(Tail(costs)))

\* func walkCost, mutated: a function call counts as a level of depth too
RECURSIVE walkCostThroughCalls(_, _, _, _)
walkCostThroughCalls(node, card, stepSeconds, depth) ==
    CASE node.Kind = "VectorSelector" ->
           Frac(EstimatedSeries(card, node.Name, DefaultHeuristicSeries), 1)
      [] node.Kind = "MatrixSelector" ->
           FracMul(walkCostThroughCalls(node.Children[1], card, stepSeconds, depth),
                   Frac(IF node.Range <= 0 THEN stepSeconds ELSE node.Range, stepSeconds))
      [] node.Kind = "AggregateExpr" ->
           FracMul(walkCostThroughCalls(node.Children[1], card, stepSeconds, depth + 1),
                   Frac(10 + 2 * depth + Len(node.Grouping), 10))
      [] node.Kind = "Call" ->
           FracMul(FracSum([i \in 1..Len(node.Children) |->
                       walkCostThroughCalls(node.Children[i], card, stepSeconds, depth + 1)]),
                   functionCost(node.Func))
      [] node.Kind = "BinaryExpr" ->
           FracAdd(walkCostThroughCalls(node.Children[1], card, stepSeconds, depth),
                   walkCostThroughCalls(node.Children[2], card, stepSeconds, depth))
      [] node.Kind \in {"ParenExpr", "UnaryExpr", "StepInvariantExpr"} ->
           walkCostThroughCalls(node.Children[1], card, stepSeconds, depth)
      [] node.Kind = "SubqueryExpr" ->
           LET subStep == IF node.Step <= 0 THEN stepSeconds ELSE node.Step
               evaluations == Frac(node.Range, subStep)
           IN  FracMul(walkCostThroughCalls(node.Children[1], card, stepSeconds, depth),
                       IF FracLess(evaluations, Frac(1, 1)) THEN Frac(1, 1)
                       ELSE evaluations)
      [] OTHER -> Frac(0, 1)

\* func walkCost(node parser.Node, card *cardinality.CardinalityData,
\* stepSeconds float64, depth int) float64; aggFactor is
\* 1.0 + 0.2*depth + 0.1*len(n.Grouping), in tenths
RECURSIVE walkCost(_, _, _, _)
walkCost(node, card, stepSeconds, depth) ==
    CASE node.Kind = "VectorSelector" ->
           Frac(EstimatedSeries(card, node.Name, DefaultHeuristicSeries), 1)
      [] node.Kind = "MatrixSelector" ->
           FracMul(walkCost(node.Children[1], card, stepSeconds, depth),
                   Frac(IF node.Range <= 0 THEN stepSeconds ELSE node.Range, stepSeconds))
      [] node.Kind = "AggregateExpr" ->
           FracMul(walkCost(node.Children[1], card, stepSeconds, depth + 1),
                   Frac(10 + 2 * depth + Len(node.Grouping), 10))
      [] node.Kind = "Call" ->
           FracMul(FracSum([i \in 1..Len(node.Children) |->
                       walkCost(node.Children[i], card, stepSeconds, depth)]),
                   functionCost(node.Func))
      [] node.Kind = "BinaryExpr" ->
           FracAdd(walkCost(node.Children[1], card, stepSeconds, depth),
                   walkCost(node.Children[2], card, stepSeconds, depth))
      [] node.Kind \in {"ParenExpr", "UnaryExpr", "StepInvariantExpr"} ->
           walkCost(node.Children[1], card, stepSeconds, depth)
      [] node.Kind = "SubqueryExpr" ->
           LET subStep == IF node.Step <= 0 THEN stepSeconds ELSE node.Step
               evaluations == Frac(node.Range, subStep)
           IN  FracMul(walkCost(node.Children[1], card, stepSeconds, depth),
                       IF FracLess(evaluations, Frac(1, 1)) THEN Frac(1, 1)
                       ELSE evaluations)
      [] OTHER -> Frac(0, 1)

\* func EstimateQueryCost(expr parser.Expr, card *cardinality.CardinalityData,
\* stepSeconds float64) float64; a nil expr is NoExpr
EstimateQueryCost(expr, card, stepSeconds) ==
    IF expr = NoExpr THEN Frac(0, 1)
    ELSE walkCost(expr, card, IF stepSeconds <= 0 THEN 15 ELSE stepSeconds, 0)

(***************************************************************************)
(* pkg/analyzer/engine.go: the engine.                                     *)
(***************************************************************************)
\* func DefaultEngine() *Engine: the rules, in registration order
DefaultRules ==
    <<"Q1", "Q2", "Q3", "Q4", "Q5", "Q6", "Q7", "Q8", "Q9", "Q10", "Q11", "Q12",
      "D1", "D2", "D3", "D4", "D5", "D6", "D7", "D8", "D9", "D10",
      "B1", "B2", "B3", "B4", "B5", "B6", "B7">>

\* r.Check(ctx) of the rule registered under id, orders being the orders in
\* which the ranges of Q9 and D8 visit their maps. The rules not named here
\* return nil on the dashboards of this model: D2, D3 and D4 read the template
\* variables and D9 the datasource references, of which there are none;
\* the B rules return nil without a PrometheusURL and without cardinality
\* data.
RuleCheck(id, ctx, orders) ==
    CASE id = "Q1" -> MissingFiltersCheck(ctx)
      [] id = "Q2" -> UnboundedRegexCheck(ctx)
      [] id = "Q3" -> RegexEqualityCheck(ctx)
      [] id = "Q4" -> HighCardinalityGroupingCheck(ctx)
      [] id = "Q5" -> LateAggregationCheck(ctx)
      [] id = "Q6" -> LongRateRangeCheck(ctx)
      [] id = "Q7" -> HardcodedIntervalCheck(ctx)
      [] id = "Q8" -> SubqueryAbuseCheck(ctx)
      [] id = "Q9" -> DuplicateExpressionsCheck(ctx, orders.Q9)
      [] id = "Q10" -> IncorrectAggregationCheck(ctx)
      [] id = "Q11" -> RateOnGaugeCheck(ctx)
      [] id = "Q12" -> ImpossibleVectorMatchingCheck(ctx)
      [] id = "D1" -> TooManyPanelsCheck(ctx)
      [] id = "D5" -> RefreshTooFrequentCheck(ctx)
      [] id = "D6" -> RangeTooWideCheck(ctx)
      [] id = "D7" -> MissingMaxDataPointsCheck(ctx)
      [] id = "D8" -> DuplicateQueriesCheck(ctx, orders.D8)
      [] id = "D10" -> NoCollapsedRowsCheck(ctx)
      [] OTHER -> <<>>

\* for _, r := range e.rules { findings = append(findings, r.Check(ctx)...) }
RunRules(rs, ctx, orders) ==
    Flatten([k \in 1..Len(rs) |-> RuleCheck(rs[k], ctx, orders)])

\* func computePanelScores(findings []rules.Finding) map[int]int
computePanelScores(fs) ==
    LET appended == Flatten([i \in 1..Len(fs) |->
                        [j \in 1..Len(fs[i].PanelIDs) |->
                            [pid |-> fs[i].PanelIDs[j], f |-> fs[i]]]])
        panelFindings(pid) ==
            LET of == SelectSeq(appended, LAMBDA a : a.pid = pid)
            IN  [k \in 1..Len(of) |-> of[k].f]
    IN  [pid \in {appended[i].pid : i \in 1..Len(appended)} |->
            ComputeScore(panelFindings(pid))]

\* the head of AnalyzeDashboard: the context the rules are run on
BuildContext(d) ==
    AnalysisContext(d, PanelsWithTargets(d), ParseAllExprs(AllTargetExprs(d)).Parsed)

\* totalTargets of AnalyzeDashboard over all[i..]
RECURSIVE TotalTargetsFrom(_, _)
TotalTargetsFrom(all, i) ==
    IF i > Len(all) THEN 0 ELSE Len(all[i].Targets) + TotalTargetsFrom(all, i + 1)

\* func (e *Engine) AnalyzeDashboard(dash *extractor.DashboardModel) *rules.Report:
\* the fields of the Report and of its Metadata, and the keys of the
\* ParsedExprs the rules were run on
AnalyzeDashboard(d, orders) ==
    LET parseErrors == ParseAllExprs(AllTargetExprs(d)).Errors
        ctx == BuildContext(d)
        fs == RunRules(DefaultRules, ctx, orders)
    IN  [Score |-> ComputeScore(fs),
         Findings |-> fs,
         PanelScores |-> computePanelScores(fs),
         TotalPanels |-> Len(AllPanels(d)),
         TotalTargets |-> TotalTargetsFrom(AllPanels(d), 1),
         ParseErrors |-> Len(parseErrors),
         Parsed |-> DOMAIN ctx.ParsedExprs]

\* ParseAllExprs has not been called
NotParsed == [Done |-> FALSE, Parsed |-> <<>>, Errors |-> <<>>]

(***************************************************************************)
(* pkg/cardinality: the client of the TSDB status API and its cache; and   *)
(* the engine with a cardinality client.                                   *)
(***************************************************************************)
\* const cacheTTL
cacheTTL == 5 * Minute

\* what c.httpClient.Get and the decoding of the body meet: an error of Get
\* ("" for none), the status code, whether the body decodes, the status
\* field of the body and the data in it
Response(getErr, statusCode, decodes, status, data) ==
    [GetErr |-> getErr, StatusCode |-> statusCode, Decodes |-> decodes,
     Status |-> status, Data |-> data]

\* fetchFromAPI, mutated: the status field of the body is not looked at
fetchFromAPILenient(resp) ==
    IF resp.GetErr # "" THEN [Data |-> NilCardinality, Err |-> "fetching TSDB status"]
    ELSE IF resp.StatusCode # 200
    THEN [Data |-> NilCardinality, Err |-> "TSDB status API returned code"]
    ELSE IF ~resp.Decodes
    THEN [Data |-> NilCardinality, Err |-> "decoding TSDB status response"]
    ELSE [Data |-> resp.Data, Err |-> ""]

\* func (c *Client) fetchFromAPI() (*CardinalityData, error): data and the
\* error, "" for nil
fetchFromAPI(resp) ==
    IF resp.GetErr # "" THEN [Data |-> NilCardinality, Err |-> "fetching TSDB status"]
    ELSE IF resp.StatusCode # 200
    THEN [Data |-> NilCardinality, Err |-> "TSDB status API returned code"]
    ELSE IF ~resp.Decodes
    THEN [Data |-> NilCardinality, Err |-> "decoding TSDB status response"]
    ELSE IF resp.Status # "success"
    THEN [Data |-> NilCardinality, Err |-> "TSDB status API returned status"]
    ELSE [Data |-> resp.Data, Err |-> ""]

\* const highCardinalityThreshold
highCardinalityThreshold == 1000000

\* func (r *HighCardinality) Check(ctx *AnalysisContext) []Finding
HighCardinalityCheck(ctx) ==
    IF ctx.Cardinality.Nil THEN <<>>
    ELSE IF ctx.Cardinality.HeadSeriesCount <= highCardinalityThreshold THEN <<>>
    ELSE <<Finding("B6", High, <<>>, FALSE, {})>>

\* for _, r := range e.rules { findings = append(findings, r.Check(ctx)...) }
\* with Cardinality: cardData in the context: B6 reads it; Q1 and Q5 read it
\* for the wording and the confidence of their findings only
RunRulesWithCardinality(rs, ctx, cardData, orders) ==
    Flatten([k \in 1..Len(rs) |->
        IF rs[k] = "B6" THEN HighCardinalityCheck([Cardinality |-> cardData])
        ELSE RuleCheck(rs[k], ctx, orders)])

\* func (e *Engine) AnalyzeDashboard after the call of Fetch, cardData being
\* what Fetch returned: the findings and CardinalityAvailable of the report
ReportWithCardinality(d, cardData, orders) ==
    [Done |-> TRUE,
     Findings |-> RunRulesWithCardinality(DefaultRules, BuildContext(d), cardData, orders),
     CardinalityAvailable |-> ~cardData.Nil]

(***************************************************************************)
(* pkg/fixer: ApplyFixes and its fix procedures, on the raw document.      *)
(***************************************************************************)
\* func containsRegexMeta(s string) bool, of the fixer
containsRegexMetaFixer(s) ==
    \E i \in 1..Len(s) :
        s[i] \in {".", "*", "+", "?", "(", ")", "[", "]", "{", "}", "|", "^", "$", "\\"}

\* regexMatcherRe, (=~)"([^"]*)", matched at byte i: the byte of the closing
\* quote, 0 where it does not match there
regexMatcherReEnd(s, i) ==
    IF HasPrefixAt(s, i, <<"=", "~", "\"">>) /\ IndexByteFrom(s, i + 3, "\"") >= 0
    THEN i + 3 + IndexByteFrom(s, i + 3, "\"")
    ELSE 0

\* regexMatcherRe.ReplaceAllStringFunc(expr, ...) from byte i on: the matches
\* left to right, none overlapping another
RECURSIVE FixRegexEqualityFrom(_, _)
FixRegexEqualityFrom(expr, i) ==
    IF i > Len(expr) THEN <<>>
    ELSE LET end == regexMatcherReEnd(expr, i)
             value == SubSeq(expr, i + 3, end - 1)
         IN  IF end = 0 THEN <<expr[i]>> \o FixRegexEqualityFrom(expr, i + 1)
             ELSE (IF ~containsRegexMetaFixer(value)
                   THEN <<"=", "\"">> \o value \o <<"\"">>
                   ELSE SubSeq(expr, i, end))
                  \o FixRegexEqualityFrom(expr, end + 1)

\* func fixRegexEquality(expr string) string
fixRegexEquality(expr) == FixRegexEqualityFrom(expr, 1)

\* a target of fixQ3's inner loop
FixTargetQ3(t) ==
    IF t.Kind # "object" THEN t
    ELSE IF t.Val.expr.Kind # "string" THEN t
    ELSE JObject([t.Val EXCEPT !.expr = JString(fixRegexEquality(t.Val.expr.Val))])

\* a panel of fixQ3's loop
FixPanelQ3(p) ==
    IF p.Kind # "object" THEN p
    ELSE IF p.Val.targets.Kind # "array" THEN p
    ELSE JObject([p.Val EXCEPT !.targets =
             JArray([j \in 1..Len(p.Val.targets.Val) |->
                         FixTargetQ3(p.Val.targets.Val[j])])])

\* func fixQ3(dash map[string]interface{}, f rules.Finding)
fixQ3(doc, f) ==
    IF doc.Val.panels.Kind # "array" THEN doc
    ELSE JObject([doc.Val EXCEPT !.panels =
             JArray([i \in 1..Len(doc.Val.panels.Val) |->
                         FixPanelQ3(doc.Val.panels.Val[i])])])

\* hardcodedIntervalRe, ((?:rate|irate|increase)\s*\([^[]*)\[(\d+[smhd])\], matched
\* at byte i with the name fn: the byte of its "[", 0 where it does not match
hardcodedIntervalReBracket(s, i, fn) ==
    LET open == SkipSpace(s, i + Len(fn))
        k == open + 1 + IndexByteFrom(s, open + 1, "[")
        unit == SkipDigits(s, k + 1)
    IN  IF /\ HasPrefixAt(s, i, fn)
           /\ open <= Len(s)
           /\ s[open] = "("
           /\ IndexByteFrom(s, open + 1, "[") >= 0
           /\ unit > k + 1
           /\ unit + 1 <= Len(s)
           /\ s[unit] \in {"s", "m", "h", "d"}
           /\ s[unit + 1] = "]"
        THEN k
        ELSE 0

\* hardcodedIntervalRe.ReplaceAllString(expr, "${1}[$$__rate_interval]") from
\* byte i on
RECURSIVE FixIntervalFrom(_, _)
FixIntervalFrom(expr, i) ==
    IF i > Len(expr) THEN <<>>
    ELSE IF \E fn \in RateLikeNames : hardcodedIntervalReBracket(expr, i, fn) # 0
    THEN LET fn == CHOOSE n \in RateLikeNames : hardcodedIntervalReBracket(expr, i, n) # 0
             k == hardcodedIntervalReBracket(expr, i, fn)
         IN  SubSeq(expr, i, k - 1) \o <<"[", "$", "_", "_", "r", "a", "t", "e", "_", "i", "n", "t", "e", "r", "v", "a", "l", "]">>
             \o FixIntervalFrom(expr, SkipDigits(expr, k + 1) + 2)
    ELSE <<expr[i]>> \o FixIntervalFrom(expr, i + 1)

\* a target of fixTargetsQ7's loop
FixTargetQ7(t) ==
    IF t.Kind # "object" THEN t
    ELSE IF \/ t.Val.expr.Kind # "string"
            \/ Contains(t.Val.expr.Val, <<"$", "_", "_", "r", "a", "t", "e", "_", "i", "n", "t", "e", "r", "v", "a", "l">>)
            \/ Contains(t.Val.expr.Val, <<"$", "_", "_", "i", "n", "t", "e", "r", "v", "a", "l">>)
    THEN t
    ELSE JObject([t.Val EXCEPT !.expr = JString(FixIntervalFrom(t.Val.expr.Val, 1))])

\* func fixTargetsQ7(panel map[string]interface{})
fixTargetsQ7(panel) ==
    IF panel.Val.targets.Kind # "array" THEN panel
    ELSE JObject([panel.Val EXCEPT !.targets =
             JArray([j \in 1..Len(panel.Val.targets.Val) |->
                         FixTargetQ7(panel.Val.targets.Val[j])])])

\* a panel of fixQ7's loop: its targets, then those of its nested panels
FixPanelQ7(p) ==
    IF p.Kind # "object" THEN p
    ELSE LET panel == fixTargetsQ7(p)
         IN  IF panel.Val.panels.Kind # "array" THEN panel
             ELSE JObject([panel.Val EXCEPT !.panels =
                      JArray([j \in 1..Len(panel.Val.panels.Val) |->
                                  IF panel.Val.panels.Val[j].Kind = "object"
                                  THEN fixTargetsQ7(panel.Val.panels.Val[j])
                                  ELSE panel.Val.panels.Val[j]])])

\* func fixQ7(dash map[string]interface{}, f rules.Finding)
fixQ7(doc, f) ==
    IF doc.Val.panels.Kind # "array" THEN doc
    ELSE JObject([doc.Val EXCEPT !.panels =
             JArray([i \in 1..Len(doc.Val.panels.Val) |->
                         FixPanelQ7(doc.Val.panels.Val[i])])])

\* fixD5, mutated: refresh is set to a second
fixD5Second(doc) == JObject([doc.Val EXCEPT !.refresh = JString(<<"1", "s">>)])

\* func fixD5(dash map[string]interface{})
fixD5(doc) == JObject([doc.Val EXCEPT !.refresh = JString(<<"1", "m">>)])

\* make(map[string]interface{}): no key of a time object is in it
EmptyTimeMap == [from |-> JAbsent, to |-> JAbsent]

\* fixD6, mutated: a document without a time object is returned as it is
fixD6Skipping(doc) ==
    IF doc.Val.time.Kind # "object" THEN doc
    ELSE JObject([doc.Val EXCEPT !.time =
                     JObject([doc.Val.time.Val EXCEPT !.from = JString(<<"n", "o", "w", "-", "1", "h">>)])])

\* func fixD6(dash map[string]interface{})
fixD6(doc) ==
    LET timeMap == IF doc.Val.time.Kind = "object" THEN doc.Val.time.Val
                   ELSE EmptyTimeMap
    IN  JObject([doc.Val EXCEPT !.time =
                     JObject([timeMap EXCEPT !.from = JString(<<"n", "o", "w", "-", "1", "h">>)])])

\* vizTypes of fixD7
vizTypes == {"timeseries", "graph", "barchart", "heatmap"}

\* pType, _ := panel["type"].(string)
TypeString(p) == IF p.Val.type.Kind = "string" THEN p.Val.type.Val ELSE ""

\* the first half, mutated: the value of every panel of a type of vizTypes is
\* overwritten, with 0
FixTopPanelD7Zeroing(panel) ==
    IF TypeString(panel) \notin vizTypes THEN panel
    ELSE JObject([panel.Val EXCEPT !.maxDataPoints = JNumber(<<"0">>)])

\* the first half of the body of fixD7's loop: a top-level panel
FixTopPanelD7(panel) ==
    IF TypeString(panel) \notin vizTypes THEN panel
    ELSE IF panel.Val.maxDataPoints.Kind = "absent"
    THEN JObject([panel.Val EXCEPT !.maxDataPoints = JNumber(<<"1", "0", "0", "0">>)])
    ELSE IF panel.Val.maxDataPoints.Kind = "number" /\ panel.Val.maxDataPoints.Val = <<"0">>
    THEN JObject([panel.Val EXCEPT !.maxDataPoints = JNumber(<<"1", "0", "0", "0">>)])
    ELSE panel

\* the second half: a nested panel
FixNestedPanelD7(nestedPanel) ==
    IF nestedPanel.Kind # "object" THEN nestedPanel
    ELSE IF TypeString(nestedPanel) \notin vizTypes THEN nestedPanel
    ELSE IF nestedPanel.Val.maxDataPoints.Kind = "absent"
    THEN JObject([nestedPanel.Val EXCEPT !.maxDataPoints = JNumber(<<"1", "0", "0", "0">>)])
    ELSE nestedPanel

\* a panel of fixD7's loop
FixPanelD7(p) ==
    IF p.Kind # "object" THEN p
    ELSE LET panel == FixTopPanelD7(p)
         IN  IF panel.Val.panels.Kind # "array" THEN panel
             ELSE JObject([panel.Val EXCEPT !.panels =
                      JArray([j \in 1..Len(panel.Val.panels.Val) |->
                                  FixNestedPanelD7(panel.Val.panels.Val[j])])])

\* func fixD7(dash map[string]interface{}, f rules.Finding)
fixD7(doc, f) ==
    IF doc.Val.panels.Kind # "array" THEN doc
    ELSE JObject([doc.Val EXCEPT !.panels =
             JArray([i \in 1..Len(doc.Val.panels.Val) |->
                         FixPanelD7(doc.Val.panels.Val[i])])])

\* the rules with a case in the switch of ApplyFixes
FixedRules == {"Q3", "Q7", "D5", "D6", "D7"}

\* the switch of ApplyFixes
FixOne(doc, f) ==
    CASE f.RuleID = "Q3" -> fixQ3(doc, f)
      [] f.RuleID = "Q7" -> fixQ7(doc, f)
      [] f.RuleID = "D5" -> fixD5(doc)
      [] f.RuleID = "D6" -> fixD6(doc)
      [] f.RuleID = "D7" -> fixD7(doc, f)
      [] OTHER -> doc

\* the loop, mutated: the AutoFixable mark of a finding is not looked at
RECURSIVE ApplyFixesFromUnmarked(_, _, _, _)
ApplyFixesFromUnmarked(doc, fs, i, fixCount) ==
    IF i > Len(fs) THEN [Doc |-> doc, FixCount |-> fixCount]
    ELSE IF fs[i].RuleID \notin FixedRules
    THEN ApplyFixesFromUnmarked(doc, fs, i + 1, fixCount)
    ELSE ApplyFixesFromUnmarked(FixOne(doc, fs[i]), fs, i + 1, fixCount + 1)

\* the loop of ApplyFixes from the i-th finding on; no fix procedure returns
\* an error
RECURSIVE ApplyFixesFrom(_, _, _, _)
ApplyFixesFrom(doc, fs, i, fixCount) ==
    IF i > Len(fs) THEN [Doc |-> doc, FixCount |-> fixCount]
    ELSE IF ~fs[i].AutoFixable
    THEN ApplyFixesFrom(doc, fs, i + 1, fixCount)
    ELSE IF fs[i].RuleID \notin FixedRules
    THEN ApplyFixesFrom(doc, fs, i + 1, fixCount)
    ELSE ApplyFixesFrom(FixOne(doc, fs[i]), fs, i + 1, fixCount + 1)

\* func ApplyFixes(dashboardJSON []byte, findings []rules.Finding) ([]byte, int, error):
\* the patched bytes as the tree that is in them
ApplyFixes(dashboardJSON, fs) ==
    IF dashboardJSON.Kind # "object"
    THEN [Err |-> TRUE, Patched |-> JNull, FixCount |-> 0]
    ELSE LET out == ApplyFixesFrom(Unmarshal(dashboardJSON), fs, 1, 0)
         IN  [Err |-> FALSE, Patched |-> out.Doc, FixCount |-> out.FixCount]

(***************************************************************************)
(* Each specification runs one component; the others are at rest.          *)
(***************************************************************************)
\* the scorer at rest, in the specifications of other components
ScoreIdle ==
    /\ findings = <<>>
    /\ penalty = 0
    /\ score = 100
    /\ prevScore = 100
    /\ lastOp = "init"

\* the preprocessor at rest
SubstIdle ==
    /\ substInput = <<>>
    /\ substOnce = <<>>
    /\ substTwice = <<>>
    /\ substPc = "start"


\* the engine at rest: an empty dashboard, never analysed
EngineIdle ==
    /\ dash = Dashboard(<<>>)
    /\ runs = <<>>
    /\ rawExprs = <<>>
    /\ parseOut = NotParsed


\* no rule called: an empty dashboard, no rule chosen
NotChecked == [Done |-> FALSE, Findings |-> <<>>]

RuleIdle ==
    /\ ruleDash = Dashboard(<<>>)
    /\ ruleID = ""
    /\ ruleOut = NotChecked

\* ApplyFixes not called, no analysis made
NotFixed == [Done |-> FALSE, Err |-> FALSE, Patched |-> JNull, FixCount |-> 0]
NoReport == [Done |-> FALSE, Findings |-> <<>>]

\* the fixer at rest
FixIdle ==
    /\ fixDoc = JNull
    /\ fixGiven = <<>>
    /\ fixReport = NoReport
    /\ fixOut = NotFixed
    /\ fixAgain = NotFixed
    /\ fixReport2 = NoReport
    /\ fixPc = "start"

\* the scanner at rest
ScanIdle ==
    /\ scanExpr = <<>>
    /\ scanI = 1
    /\ scanB = <<>>

\* a context without template variables and without cardinality data
CtxIdle ==
    /\ ruleVariables = <<>>
    /\ ruleCardinality = NilCardinality

\* no cost estimated
NoCost == [Done |-> FALSE, Cost |-> <<0, 1>>]

CostIdle ==
    /\ costExpr = NoExpr
    /\ costCard = NilCardinality
    /\ costStep = 0
    /\ costOut = NoCost

\* a client nobody calls
FetchIdle ==
    /\ mu = 0
    /\ cached = NilCardinality
    /\ cachedAt = 0
    /\ now = 0
    /\ calls = <<>>
    /\ fetchDash = Dashboard(<<>>)

\* the components of the later specifications at rest
AuxIdle == ScanIdle /\ CtxIdle /\ CostIdle /\ FetchIdle

(***************************************************************************)
(* The scorer specification: a finding list grows and shrinks one finding  *)
(* at a time and is scored after every change.                             *)
(***************************************************************************)
\* the findings the scorer specification draws from: one per severity
ScoreFinding(sev) == Finding("X", sev, <<>>, FALSE, {})

RemoveAt(s, i) == SubSeq(s, 1, i - 1) \o SubSeq(s, i + 1, Len(s))

ScoreInit ==
    /\ findings = <<>>
    /\ penalty = 0
    /\ score = ComputeScore(<<>>)
    /\ prevScore = ComputeScore(<<>>)
    /\ lastOp = "init"

\* a finding is added to the list and the list is scored again
AddFinding(f) ==
    /\ Len(findings) < MaxFindings
    /\ findings' = Append(findings, f)
    /\ penalty' = PenaltyFrom(findings', 1, 0)
    /\ score' = ComputeScore(findings')
    /\ prevScore' = score
    /\ lastOp' = "add"

\* a finding is removed from the list and the list is scored again
RemoveFinding(i) ==
    /\ i \in 1..Len(findings)
    /\ findings' = RemoveAt(findings, i)
    /\ penalty' = PenaltyFrom(findings', 1, 0)
    /\ score' = ComputeScore(findings')
    /\ prevScore' = score
    /\ lastOp' = "remove"

ScoreNext ==
    \/ \E sev \in Severities : AddFinding(ScoreFinding(sev)) /\ UNCHANGED <<substVars, engineVars, ruleVars, fixVars, auxVars>>
    \/ \E i \in 1..MaxFindings : RemoveFinding(i) /\ UNCHANGED <<substVars, engineVars, ruleVars, fixVars, auxVars>>

\* the scorer before its first call, the preprocessor and the engine idle
InitScore == ScoreInit /\ SubstIdle /\ EngineIdle /\ RuleIdle /\ FixIdle /\ AuxIdle

SpecScore == InitScore /\ [][ScoreNext]_vars

(***************************************************************************)
(* Claims about the scorer.                                                *)
(***************************************************************************)
\* the number of findings of severity sev in the scored list
CountSeverity(sev) ==
    Cardinality({i \in 1..Len(findings) : findings[i].Severity = sev})

\* the penalty of the scored list as the claim states it: the sum of the
\* weights Low 2, Medium 5, High 10, Critical 15
StatedPenalty ==
    2 * CountSeverity(Low) + 5 * CountSeverity(Medium)
        + 10 * CountSeverity(High) + 15 * CountSeverity(Critical)

\* n is 10000 / d rounded to the nearest integer, halves away from zero:
\* n - 1/2 <= 10000/d < n + 1/2
IsRoundedQuotient(n, d) ==
    /\ (2 * n - 1) * d <= 2 * 10000
    /\ 2 * 10000 < (2 * n + 1) * d

\* C1: for every non-empty list of findings, of any length, ComputeScore
\* returns an integer strictly greater than 0 and strictly less than 100; 100
\* is returned only for the empty list and 0 is never returned.
C1_ScoreStrictlyBetween0And100 ==
    /\ findings # <<>> => (score > 0 /\ score < 100)
    /\ score = 100 => findings = <<>>
    /\ score # 0

C3_AddedFindingLowersScore ==
    /\ lastOp = "add" => score < prevScore
    /\ lastOp = "remove" => score > prevScore

\* C4: the score is monotonically non-increasing: the score of a list with a
\* finding added is less than or equal to the score of the list.
C4_ScoreNonIncreasing == lastOp = "add" => score <= prevScore

\* C4 witness: a finding was added to a list of six and the score stayed where
\* it was.
C4_Witness_AddedSameScore ==
    /\ lastOp = "add"
    /\ Len(findings) = 7
    /\ score = prevScore

(***************************************************************************)
(* The long-list specification: the list holds findings of one severity    *)
(* and grows up to MaxLongFindings of them.                                *)
(***************************************************************************)
\* one more finding of the list's severity is added and the list is scored
\* again: ComputeScore's loop, which has accumulated penalty over the findings
\* so far, goes on over the added one
AddSameFinding(sev) ==
    /\ Len(findings) < MaxLongFindings
    /\ IF findings = <<>> THEN TRUE ELSE findings[1].Severity = sev
    /\ findings' = Append(findings, ScoreFinding(sev))
    /\ penalty' = PenaltyFrom(<<ScoreFinding(sev)>>, 1, penalty)
    /\ score' = ScoreOfPenalty(penalty')
    /\ prevScore' = score
    /\ lastOp' = "add"

ScoreLongNext ==
    \E sev \in Severities : AddSameFinding(sev) /\ UNCHANGED <<substVars, engineVars, ruleVars, fixVars, auxVars>>

SpecScoreLong == InitScore /\ [][ScoreLongNext]_vars

(***************************************************************************)
(* The preprocessor specification: an input string is substituted, and the *)
(* result substituted again.                                               *)
(***************************************************************************)
\* the tokens the input strings are made of
SubstTokens ==
    { <<"$">>, <<"{">>, <<"}">>, <<"x">>, <<"5">>, <<"\"">>, <<"$", "_", "_", "r", "a", "n", "g", "e">>, <<"$", "{", "_", "_", "i", "n", "t", "e", "r", "v", "a", "l", "}">> }

\* the input strings: up to MaxTokens tokens in a row
SubstInputs ==
    { Flatten(ts) : ts \in UNION { [1..n -> SubstTokens] : n \in 0..MaxTokens } }

SubstInit ==
    /\ substInput \in SubstInputs
    /\ substOnce = <<>>
    /\ substTwice = <<>>
    /\ substPc = "start"

\* the input is substituted
Substitute ==
    /\ substPc = "start"
    /\ substOnce' = ReplaceTemplateVars(substInput)
    /\ substPc' = "once"
    /\ UNCHANGED <<substInput, substTwice>>

\* the substituted string is substituted again
SubstituteAgain ==
    /\ substPc = "once"
    /\ substTwice' = ReplaceTemplateVars(substOnce)
    /\ substPc' = "twice"
    /\ UNCHANGED <<substInput, substOnce>>

SubstNext ==
    \/ Substitute /\ UNCHANGED <<scoreVars, engineVars, ruleVars, fixVars, auxVars>>
    \/ SubstituteAgain /\ UNCHANGED <<scoreVars, engineVars, ruleVars, fixVars, auxVars>>

\* the preprocessor with its input, the scorer and the engine idle
InitSubst == ScoreIdle /\ SubstInit /\ EngineIdle /\ RuleIdle /\ FixIdle /\ AuxIdle

SpecSubst == InitSubst /\ [][SubstNext]_vars

(***************************************************************************)
(* Claims about the preprocessor.                                          *)
(***************************************************************************)
\* C6: substitution is idempotent: for every input string x,
\* ReplaceTemplateVars(ReplaceTemplateVars(x)) equals ReplaceTemplateVars(x).
C6_SubstitutionIdempotent == substPc = "twice" => substTwice = substOnce

(***************************************************************************)
(* The engine specification: a dashboard is analysed, and analysed again;  *)
(* or a list of expressions is handed to ParseAllExprs.                    *)
(***************************************************************************)
\* the target lists of a panel: up to MaxTargets targets
TargetLists ==
    UNION { [1..n -> {Target(e) : e \in ExprUniverse}] : n \in 0..MaxTargets }

\* a dashboard of panels with these target lists, the last nested of them
\* inside a collapsed row that closes the dashboard; the panels are of the
\* type stat and are numbered from 1, the row comes after them
DashboardOf(tls, nested) ==
    LET n == Len(tls)
        panel(i) == Panel(i, "stat", FALSE, tls[i], <<>>)
        top == [i \in 1..(n - nested) |-> panel(i)]
        inRow == [i \in 1..nested |-> panel(n - nested + i)]
    IN  Dashboard(IF nested = 0 THEN top
                  ELSE Append(top, Panel(n + 1, "row", TRUE, <<>>, inRow)))

Min(a, b) == IF a <= b THEN a ELSE b

\* the dashboards: up to MaxPanels panels, up to MaxNested of them nested
Dashboards ==
    { DashboardOf(tls, nested) :
        <<tls, nested>> \in
            { x \in (UNION { [1..n -> TargetLists] : n \in 0..MaxPanels })
                        \X (0..MaxNested) : x[2] <= Len(x[1]) } }

\* the lists handed to ParseAllExprs directly: up to MaxExprs expressions
ExprLists == UNION { [1..n -> ExprUniverse] : n \in 0..MaxExprs }

EngineInit ==
    /\ runs = <<>>
    /\ parseOut = NotParsed
    /\ \/ dash = Dashboard(<<>>) /\ rawExprs \in ExprLists
       \/ dash \in Dashboards /\ rawExprs = <<>>

\* the dashboard is analysed, for the first or the second time
Analyze ==
    /\ rawExprs = <<>>
    /\ Len(runs) < 2
    /\ \E q9 \in MapOrders(DuplicateExpressionsKeys(BuildContext(dash))),
          d8 \in MapOrders(DuplicateQueriesKeys(BuildContext(dash))) :
           runs' = Append(runs, AnalyzeDashboard(dash, [Q9 |-> q9, D8 |-> d8]))
    /\ UNCHANGED <<dash, rawExprs, parseOut>>

\* the list is handed to ParseAllExprs
ParseRawExprs ==
    /\ dash = Dashboard(<<>>)
    /\ runs = <<>>
    /\ ~parseOut.Done
    /\ parseOut' = [Done |-> TRUE,
                    Parsed |-> ParseAllExprs(rawExprs).Parsed,
                    Errors |-> ParseAllExprs(rawExprs).Errors]
    /\ UNCHANGED <<dash, runs, rawExprs>>

EngineNext ==
    \/ Analyze /\ UNCHANGED <<scoreVars, substVars, ruleVars, fixVars, auxVars>>
    \/ ParseRawExprs /\ UNCHANGED <<scoreVars, substVars, ruleVars, fixVars, auxVars>>

\* the engine with its input, the scorer and the preprocessor idle
InitEngine == ScoreIdle /\ SubstIdle /\ EngineInit /\ RuleIdle /\ FixIdle /\ AuxIdle

SpecEngine == InitEngine /\ [][EngineNext]_vars

(***************************************************************************)
(* Claims about the engine.                                                *)
(***************************************************************************)
\* the panel ids a finding list references
ReferencedPanels(fs) ==
    UNION { {fs[i].PanelIDs[j] : j \in 1..Len(fs[i].PanelIDs)} : i \in 1..Len(fs) }

\* the findings of a list whose PanelIDs contain p, each of them once
FindingsReferencing(fs, p) ==
    SelectSeq(fs, LAMBDA f : \E j \in 1..Len(f.PanelIDs) : f.PanelIDs[j] = p)

\* C5: in the report of any run, for every panel id p referenced by at least
\* one finding, PanelScores[p] is ComputeScore of the run's findings whose
\* PanelIDs contain p, each such finding counted exactly once; a panel that no
\* finding references has no entry.
C5_PanelScoreCountsEachFindingOnce ==
    \A r \in 1..Len(runs) :
        /\ DOMAIN runs[r].PanelScores = ReferencedPanels(runs[r].Findings)
        /\ \A p \in ReferencedPanels(runs[r].Findings) :
               runs[r].PanelScores[p]
                   = ComputeScore(FindingsReferencing(runs[r].Findings, p))

\* the raw expressions of an error list
ErrorExprs(errors) == {errors[i].RawExpr : i \in 1..Len(errors)}

\* the raw expressions of the targets of a dashboard
TargetExprSet(d) == {TargetExprs(d)[i] : i \in 1..Len(TargetExprs(d))}

\* the raw expression parses once its variables are substituted
Parses(raw) == ~ParseSubstituted(raw).Err

\* C7: a parse failure is not fatal: ParseAllExprs processes every element of
\* its list; each non-empty expression that parses after substitution is in
\* the result map under its raw string, each non-empty expression that fails
\* to parse is in the error list and not in the map, wherever in the list it
\* stands; and the ParseErrors of a report is the number of distinct raw
\* expressions of the dashboard that failed.
C7_ParseFailureIsNotFatal ==
    /\ parseOut.Done =>
           \A i \in 1..Len(rawExprs) :
               rawExprs[i] # <<>> =>
                   IF Parses(rawExprs[i])
                   THEN /\ rawExprs[i] \in DOMAIN parseOut.Parsed
                        /\ parseOut.Parsed[rawExprs[i]]
                               = ParseSubstituted(rawExprs[i]).Expr
                   ELSE /\ rawExprs[i] \in ErrorExprs(parseOut.Errors)
                        /\ rawExprs[i] \notin DOMAIN parseOut.Parsed
    /\ \A r \in 1..Len(runs) :
           runs[r].ParseErrors
               = Cardinality({e \in TargetExprSet(dash) : e # <<>> /\ ~Parses(e)})

\* C7 witness: ParseAllExprs was handed an expression that fails to parse, an
\* empty one and then one that parses once substituted, and returned the
\* last in the map and the first in the error list.
C7_Witness_ParsedAfterFailure ==
    /\ parseOut.Done
    /\ rawExprs = <<ExprUnparseable, ExprEmpty, ExprTemplated>>
    /\ DOMAIN parseOut.Parsed = {ExprTemplated}
    /\ ErrorExprs(parseOut.Errors) = {ExprUnparseable}

\* the rules of the expression family
ExprRules ==
    {"Q1", "Q2", "Q3", "Q4", "Q5", "Q6", "Q7", "Q8", "Q9", "Q10", "Q11", "Q12"}

\* the findings of the given rules, in run r, are derived from targets whose
\* raw expression is in the parsed-expression map
DerivedFromParsed(r, ruleIDs) ==
    \A i \in 1..Len(runs[r].Findings) :
        runs[r].Findings[i].RuleID \in ruleIDs =>
            runs[r].Findings[i].Exprs \subseteq runs[r].Parsed

RuleIndex(id) == CHOOSE k \in 1..Len(DefaultRules) : DefaultRules[k] = id

\* C9: the emitted finding list is deterministic: it is the concatenation of
\* each registered rule's findings in rule registration order, and two runs of
\* the same engine on the same dashboard produce the same findings in the
\* same order.
C9_FindingListDeterministic ==
    /\ \A r \in 1..Len(runs) :
           \A i, j \in 1..Len(runs[r].Findings) :
               i < j => RuleIndex(runs[r].Findings[i].RuleID)
                            <= RuleIndex(runs[r].Findings[j].RuleID)
    /\ Len(runs) = 2 => runs[1].Findings = runs[2].Findings

\* the panels, rows apart, with a target whose raw query is q
PanelsUsing(d, q) ==
    LET all == AllPanels(d)
    IN  {all[i].ID : i \in {k \in 1..Len(all) :
                               /\ all[k].Type # "row"
                               /\ \E j \in 1..Len(all[k].Targets) :
                                      all[k].Targets[j].Expr = q}}

\* C10: D8 never emits a finding for a raw query used by exactly two panels
\* (or by one), whatever the number of targets that repeat it inside those
\* panels, and emits a Medium finding for every raw query used by three or
\* more distinct panels.
C10_DuplicateQueriesCountsPanels ==
    \A r \in 1..Len(runs) :
        \A q \in TargetExprSet(dash) \ {<<>>} :
            LET d8 == {i \in 1..Len(runs[r].Findings) :
                          /\ runs[r].Findings[i].RuleID = "D8"
                          /\ q \in runs[r].Findings[i].Exprs}
            IN  /\ Cardinality(PanelsUsing(dash, q)) <= 2 => d8 = {}
                /\ Cardinality(PanelsUsing(dash, q)) >= 3 =>
                       \E i \in d8 : runs[r].Findings[i].Severity = Medium

(***************************************************************************)
(* The rule specification: one rule's Check is called on the context of a  *)
(* dashboard, the way the tests of pkg/rules call it.                      *)
(***************************************************************************)
\* the raw expressions of the dashboards a rule is checked on
RuleExprs == {ExprPlain, ExprSpaced, ExprTemplated}

\* the rules that are checked on their own
CheckedRules == {"Q9", "Q8", "D3"}

\* the ranges and the steps of the subqueries rule Q8 is checked on; the
\* step of a subquery may be left out
SubqueryRanges == {<<"1", "2", "m">>, <<"7", "2", "1", "s">>, <<"1", "h">>, <<"2", "h">>}

SubquerySteps == {<<>>, <<"2", "s">>, <<"1", "0", "s">>, <<"3", "0", "s">>, <<"1", "m">>}

\* the text of the brackets of a subquery
SubqueryBrackets(range, step) == <<"[">> \o range \o <<":">> \o step \o <<"]">>

\* the subqueries on x, and the subqueries on a subquery on x
SubqueryExprs ==
    LET brackets == { SubqueryBrackets(r, s) : r \in SubqueryRanges, s \in SubquerySteps }
    IN  { <<"x">> \o b : b \in brackets }
        \cup { <<"x">> \o b \o c : b \in {<<"[", "1", "2", "m", ":", "1", "m", "]">>, <<"[", "2", "h", ":", "2", "s", "]">>}, c \in brackets }

\* the dashboards rule Q8 is checked on: a panel with one subquery
SubqueryDashboards ==
    { DashboardOf(<<<<Target(e)>>>>, 0) : e \in SubqueryExprs }

\* the target lists of a panel: up to MaxTargets targets
RuleTargetLists ==
    UNION { [1..n -> {Target(e) : e \in RuleExprs}] : n \in 0..MaxTargets }

\* the dashboards: up to MaxPanels panels, up to MaxNested of them nested
RuleDashboards ==
    { DashboardOf(tls, nested) :
        <<tls, nested>> \in
            { x \in (UNION { [1..n -> RuleTargetLists] : n \in 0..MaxPanels })
                        \X (0..MaxNested) : x[2] <= Len(x[1]) } }

\* the names of the template variables
VariableNames == <<<<"j", "o", "b">>, <<"i", "n", "s", "t", "a", "n", "c", "e">>, <<"p", "o", "d">>, <<"e", "n", "v">>>>

\* the lists of template variables rule D3 is checked on: up to MaxVariables
\* variables, each with its two switches
VariableLists ==
    UNION { [1..n -> BOOLEAN \X BOOLEAN] : n \in 0..MaxVariables }

\* the value counts of the labels in the cardinality data
LabelCounts ==
    { NoCounts,
      [k \in {<<"j", "o", "b">>} |-> 2],
      [k \in {<<"j", "o", "b">>, <<"i", "n", "s", "t", "a", "n", "c", "e">>} |-> IF k = <<"j", "o", "b">> THEN 2 ELSE 30],
      [k \in {<<"j", "o", "b">>, <<"i", "n", "s", "t", "a", "n", "c", "e">>, <<"p", "o", "d">>, <<"e", "n", "v">>} |-> 1000] }

\* the cardinality data rule D3 is checked with: none, or data with the
\* value counts of some labels
RuleCardinalities ==
    {NilCardinality} \cup { CardinalityData(NoCounts, c, 5000) : c \in LabelCounts }

RuleInit ==
    /\ ruleID \in CheckedRules
    /\ ruleDash \in CASE ruleID = "Q8" -> SubqueryDashboards
                    [] ruleID = "D3" -> {Dashboard(<<>>)}
                    [] OTHER -> RuleDashboards
    /\ ruleVariables \in
           IF ruleID = "D3"
           THEN { [i \in 1..Len(l) |-> TemplateVariable(VariableNames[i], l[i][1], l[i][2])] :
                    l \in VariableLists }
           ELSE {<<>>}
    /\ ruleCardinality \in IF ruleID = "D3" THEN RuleCardinalities ELSE {NilCardinality}
    /\ ruleOut = NotChecked

\* func buildContext(t, name) and findings := rule.Check(ctx)
CheckRule ==
    /\ ~ruleOut.Done
    /\ \E q9 \in MapOrders(DuplicateExpressionsKeys(BuildContext(ruleDash))),
          d8 \in MapOrders(DuplicateQueriesKeys(BuildContext(ruleDash))) :
           ruleOut' = [Done |-> TRUE,
                       Findings |->
                           IF ruleID = "D3"
                           THEN VariableExplosionCheck(
                                    [Variables |-> ruleVariables,
                                     Cardinality |-> ruleCardinality])
                           ELSE RuleCheck(ruleID, BuildContext(ruleDash),
                                          [Q9 |-> q9, D8 |-> d8])]
    /\ UNCHANGED <<ruleDash, ruleID>>

RuleNext == CheckRule /\ UNCHANGED <<scoreVars, substVars, engineVars, fixVars, auxVars>>

\* a rule with its dashboard, the other components idle
InitRule == ScoreIdle /\ SubstIdle /\ EngineIdle /\ RuleInit /\ FixIdle /\ ScanIdle /\ CostIdle /\ FetchIdle

SpecRule == InitRule /\ [][RuleNext]_vars

(***************************************************************************)
(* Claims about single rules.                                              *)
(***************************************************************************)
\* an expression without its spaces, tabs and line ends
StripWhitespace(s) == SelectSeq(s, LAMBDA c : c \notin {" ", "\t", "\n", "\r"})

\* the (panel id, stripped expression) pairs of the targets of the panels of
\* a dashboard that are not rows
StrippedUses(d) ==
    LET ps == SelectSeq(AllPanels(d), LAMBDA p : p.Type # "row")
    IN  UNION { { <<ps[i].ID, StripWhitespace(ps[i].Targets[j].Expr)>> :
                    j \in 1..Len(ps[i].Targets) } : i \in 1..Len(ps) }

\* the ids of the panels of d with a target whose stripped expression is k
PanelsOfGroup(d, k) == { u[1] : u \in { v \in StrippedUses(d) : v[2] = k } }

\* the findings of the call that are about the group of k
FindingsOfGroup(k) ==
    { i \in 1..Len(ruleOut.Findings) :
        \A e \in ruleOut.Findings[i].Exprs : StripWhitespace(e) = k }

SubqueryNodes(d) ==
    LET refs == TargetRefs(PanelsWithTargets(d))
        nodes == Flatten([r \in 1..Len(refs) |->
                     ParsedNodes(BuildContext(d), refs[r].Target)])
    IN  { nodes[k] : k \in { j \in 1..Len(nodes) : nodes[j].Kind = "SubqueryExpr" } }

\* a subquery that (a) has a subquery in it, (b) has a step under a minute
\* and a range over an hour, or (c) has a range over 360 times its step
IsAbusive(node) ==
    \/ \E k \in 1..Len(Inspect(node.Children[1])) :
           Inspect(node.Children[1])[k].Kind = "SubqueryExpr"
    \/ node.Step > 0 /\ node.Step < 60 /\ node.Range > 3600
    \/ node.Step > 0 /\ node.Range > 360 * node.Step

\* C28: rule Q8 emits a High finding for a subquery that (a) contains
\* another subquery, (b) has a step under a minute and a range over an hour,
\* or (c) has a range/step ratio above 360, and no finding for a subquery
\* for which none of the three holds.
C28_SubqueryAbuseFlagged ==
    (ruleID = "Q8" /\ ruleOut.Done) =>
        /\ \A i \in 1..Len(ruleOut.Findings) :
               ruleOut.Findings[i].RuleID = "Q8" /\ ruleOut.Findings[i].Severity = High
        /\ (\E node \in SubqueryNodes(ruleDash) : IsAbusive(node))
               <=> ruleOut.Findings # <<>>

\* the variables of the call that are both multi-select and include-all
ExplosiveVariables ==
    { i \in 1..Len(ruleVariables) : ruleVariables[i].IncludeAll /\ ruleVariables[i].Multi }

\* the value count of a variable: the measured count of the label of its
\* name when there is cardinality data with it, else the heuristic default
ValueCountEstimate(v) ==
    IF ~ruleCardinality.Nil /\ v.Name \in DOMAIN ruleCardinality.ValuesByLabel
    THEN ruleCardinality.ValuesByLabel[v.Name]
    ELSE 100

\* the product of the estimates of the variables of the set s
RECURSIVE EstimateProduct(_)
EstimateProduct(s) ==
    IF s = {} THEN 1
    ELSE LET i == CHOOSE j \in s : TRUE
         IN  ValueCountEstimate(ruleVariables[i]) * EstimateProduct(s \ {i})

\* C27: rule D3 takes the variables that are multi-select and include-all,
\* estimates the value count of each as the measured count when cardinality
\* data is available and as 100 otherwise, multiplies the estimates with the
\* product cut at 1,000,000, and emits exactly one Critical finding if and
\* only if the product exceeds 50.
C27_CrossProductOfEstimates ==
    (ruleID = "D3" /\ ruleOut.Done) =>
        LET product == Min(EstimateProduct(ExplosiveVariables), 1000000)
        IN  IF product > 50
            THEN /\ Len(ruleOut.Findings) = 1
                 /\ ruleOut.Findings[1].RuleID = "D3"
                 /\ ruleOut.Findings[1].Severity = Critical
            ELSE ruleOut.Findings = <<>>
(***************************************************************************)
(* The fixer specifications. In the first a document and a list of         *)
(* findings are handed to ApplyFixes, and the patched document with the    *)
(* same list again. In the second a document is analysed, ApplyFixes is    *)
(* called with the findings of the report, and the patched document is     *)
(* analysed.                                                               *)
(***************************************************************************)
\* the digits of a small number
SmallDigits(n) == <<<<"0", "1", "2", "3", "4", "5", "6", "7", "8", "9">>[n + 1]>>

\* a target object with this expr
RawTarget(expr) == JObject([expr |-> JString(expr), refId |-> JString(<<"A">>)])

\* a panel object: its targets are absent or one target, its panels absent
\* or the nested panels
RawPanel(id, type, mdp, targets, nested) ==
    JObject([id |-> JNumber(SmallDigits(id)),
             type |-> JString(type),
             collapsed |-> IF type = "row" THEN JBool(TRUE) ELSE JAbsent,
             maxDataPoints |-> mdp,
             targets |-> targets,
             panels |-> IF nested = <<>> THEN JAbsent ELSE JArray(nested)])

\* the type and maxDataPoints of the panels of the documents
RawShapes ==
    {<<"timeseries", JAbsent>>, <<"timeseries", JNumber(<<"0">>)>>,
     <<"timeseries", JNumber(<<"5", "0", "0">>)>>, <<"stat", JAbsent>>}

\* the targets of a panel: none, or one with an expression of exprs
RawTargetLists(exprs) == {JAbsent} \cup { JArray(<<RawTarget(e)>>) : e \in exprs }

\* the i-th entry of a panels array: a panel, or a collapsed row with one
\* panel nested in it
RawEntries(i, exprs) ==
    LET panels(id) == { RawPanel(id, s[1], s[2], t, <<>>) :
                          s \in RawShapes, t \in RawTargetLists(exprs) }
    IN  panels(2 * i - 1)
        \cup { RawPanel(2 * i - 1, "row", JAbsent, JAbsent, <<p>>) : p \in panels(2 * i) }

\* the panels arrays of up to n entries
RawPanelLists(n, exprs) ==
    UNION { { a \in [1..m -> UNION { RawEntries(i, exprs) : i \in 1..m }] :
                \A i \in 1..m : a[i] \in RawEntries(i, exprs) } : m \in 0..n }

\* a document: refresh, time, the panels, and iteration, a number that
\* DashboardModel has no field for
RawDoc(refresh, time, iteration, panels) ==
    JObject([refresh |-> refresh, time |-> time, iteration |-> iteration,
             panels |-> panels])

RawRefreshes == {JAbsent, JString(<<"5", "s">>)}

RawTimes ==
    {JAbsent, JObject([from |-> JString(<<"n", "o", "w", "-", "7", "d">>), to |-> JString(<<"n", "o", "w">>)])}

\* the documents handed to ApplyFixes directly
FixDocs ==
    { RawDoc(r, t, i, p) :
        r \in RawRefreshes, t \in RawTimes,
        i \in {JNumber(<<"1">>), JNumber(Float64Inexact)},
        p \in {JAbsent} \cup { JArray(a) : a \in RawPanelLists(MaxFixPanels, FixExprs) } }

\* the refresh of the documents that are analysed: none, one under the
\* minimum and the minimum
FlowRefreshes == {JAbsent, JString(<<"1", "0", "s">>), JString(<<"3", "0", "s">>)}

\* the expressions of the documents that are analysed
FlowExprs == {ExprRegexPlain, ExprHardcoded, ExprHardcodedClass, ExprTemplated}

\* the documents that are analysed, fixed and analysed again
FlowDocs ==
    { RawDoc(r, t, JNumber(<<"1">>), JArray(a)) :
        r \in FlowRefreshes, t \in RawTimes,
        a \in RawPanelLists(MaxFlowPanels, FlowExprs) }

\* the findings handed to ApplyFixes directly: one of each fixed rule, one
\* of a fixed rule that is not marked auto-fixable, and two of rules without
\* a fix procedure
GivenFindings ==
    { Finding(r, Medium, <<>>, TRUE, {}) : r \in FixedRules \cup {"Q1", "X1"} }
    \cup { Finding("D5", Medium, <<>>, FALSE, {}) }

GivenLists == UNION { [1..n -> GivenFindings] : n \in 0..MaxGiven }

FixInit ==
    /\ fixDoc \in FixDocs
    /\ fixGiven \in GivenLists
    /\ fixReport = NoReport
    /\ fixOut = NotFixed
    /\ fixAgain = NotFixed
    /\ fixReport2 = NoReport
    /\ fixPc = "given"

FlowInit ==
    /\ fixDoc \in FlowDocs
    /\ fixGiven = <<>>
    /\ fixReport = NoReport
    /\ fixOut = NotFixed
    /\ fixAgain = NotFixed
    /\ fixReport2 = NoReport
    /\ fixPc = "start"

\* what ApplyFixes returned
Returned(out) ==
    [Done |-> TRUE, Err |-> out.Err, Patched |-> out.Patched, FixCount |-> out.FixCount]

\* the report of engine.AnalyzeDashboard(dash)
ReportOf(d, orders) ==
    [Done |-> TRUE, Findings |-> AnalyzeDashboard(d, orders).Findings]

\* dash, err := extractor.ParseDashboard(rawJSON);
\* originalReport := engine.AnalyzeDashboard(dash)
AnalyzeOriginal ==
    /\ fixPc = "start"
    /\ ~ParseDashboard(fixDoc).Err
    /\ LET d == ParseDashboard(fixDoc).Dash
       IN  \E q9 \in MapOrders(DuplicateExpressionsKeys(BuildContext(d))),
              d8 \in MapOrders(DuplicateQueriesKeys(BuildContext(d))) :
               /\ fixReport' = ReportOf(d, [Q9 |-> q9, D8 |-> d8])
               /\ fixGiven' = fixReport'.Findings
    /\ fixPc' = "analysed"
    /\ UNCHANGED <<fixDoc, fixOut, fixAgain, fixReport2>>

\* patchedJSON, fixCount, err := ApplyFixes(rawJSON, findings)
Fix ==
    /\ fixPc \in {"given", "analysed"}
    /\ fixOut' = Returned(ApplyFixes(fixDoc, fixGiven))
    /\ fixPc' = IF fixPc = "given" THEN "fixed" ELSE "patched"
    /\ UNCHANGED <<fixDoc, fixGiven, fixReport, fixAgain, fixReport2>>

\* ApplyFixes(patchedJSON, findings)
FixAgain ==
    /\ fixPc = "fixed"
    /\ ~fixOut.Err
    /\ fixAgain' = Returned(ApplyFixes(fixOut.Patched, fixGiven))
    /\ fixPc' = "again"
    /\ UNCHANGED <<fixDoc, fixGiven, fixReport, fixOut, fixReport2>>

\* patchedDash, err := extractor.ParseDashboard(patchedJSON);
\* patchedReport := engine.AnalyzeDashboard(patchedDash)
AnalyzePatched ==
    /\ fixPc = "patched"
    /\ ~fixOut.Err
    /\ ~ParseDashboard(fixOut.Patched).Err
    /\ LET d == ParseDashboard(fixOut.Patched).Dash
       IN  \E q9 \in MapOrders(DuplicateExpressionsKeys(BuildContext(d))),
              d8 \in MapOrders(DuplicateQueriesKeys(BuildContext(d))) :
               fixReport2' = ReportOf(d, [Q9 |-> q9, D8 |-> d8])
    /\ fixPc' = "reanalysed"
    /\ UNCHANGED <<fixDoc, fixGiven, fixReport, fixOut, fixAgain>>

FixNext ==
    \/ Fix /\ UNCHANGED <<scoreVars, substVars, engineVars, ruleVars, auxVars>>
    \/ FixAgain /\ UNCHANGED <<scoreVars, substVars, engineVars, ruleVars, auxVars>>

FlowNext ==
    \/ AnalyzeOriginal /\ UNCHANGED <<scoreVars, substVars, engineVars, ruleVars, auxVars>>
    \/ Fix /\ UNCHANGED <<scoreVars, substVars, engineVars, ruleVars, auxVars>>
    \/ AnalyzePatched /\ UNCHANGED <<scoreVars, substVars, engineVars, ruleVars, auxVars>>

InitFix == ScoreIdle /\ SubstIdle /\ EngineIdle /\ RuleIdle /\ FixInit /\ AuxIdle

InitFlow == ScoreIdle /\ SubstIdle /\ EngineIdle /\ RuleIdle /\ FlowInit /\ AuxIdle

SpecFix == InitFix /\ [][FixNext]_vars

SpecFixFlow == InitFlow /\ [][FlowNext]_vars

(***************************************************************************)
(* Claims about the fixer.                                                 *)
(***************************************************************************)
\* how many findings of a list are of a rule
CountRule(fs, r) == Cardinality({ i \in 1..Len(fs) : fs[i].RuleID = r })

\* how many findings of a list are marked auto-fixable
CountAutoFixable(fs) == Cardinality({ i \in 1..Len(fs) : fs[i].AutoFixable })

C13_FixesStrictlyReduceFindings ==
    (fixPc = "reanalysed" /\ CountAutoFixable(fixReport.Findings) > 0) =>
        /\ CountAutoFixable(fixReport2.Findings) < CountAutoFixable(fixReport.Findings)
        /\ Len(fixReport2.Findings) < Len(fixReport.Findings)


\* C14: the fix procedures are idempotent: applying ApplyFixes with a
\* finding list to the output of ApplyFixes with that list yields a document
\* equal to that output.
C14_FixesIdempotent ==
    (fixPc = "again" /\ ~fixAgain.Err) => fixAgain.Patched = fixOut.Patched

\* a finding ApplyFixes has a fix procedure to apply for
IsApplicable(f) == f.AutoFixable /\ f.RuleID \in {"Q3", "Q7", "D5", "D6", "D7"}

\* the fix procedures of these findings applied in order
RECURSIVE ProceduresApplied(_, _)
ProceduresApplied(doc, fs) ==
    IF fs = <<>> THEN doc
    ELSE ProceduresApplied(
             CASE Head(fs).RuleID = "Q3" -> fixQ3(doc, Head(fs))
               [] Head(fs).RuleID = "Q7" -> fixQ7(doc, Head(fs))
               [] Head(fs).RuleID = "D5" -> fixD5(doc)
               [] Head(fs).RuleID = "D6" -> fixD6(doc)
               [] Head(fs).RuleID = "D7" -> fixD7(doc, Head(fs)),
             Tail(fs))

\* C15: ApplyFixes applies a fix procedure for a finding exactly when the
\* finding is marked AutoFixable and its rule id is one of Q3, Q7, D5, D6, D7;
\* every other finding is skipped without a change of the document and
\* without an error, and fixCount is the number of findings a procedure was
\* applied for.
C15_OnlyApplicableFindingsApplied ==
    fixPc \in {"fixed", "again"} =>
        /\ ~fixOut.Err
        /\ fixOut.FixCount = Len(SelectSeq(fixGiven, IsApplicable))
        /\ fixOut.Patched =
               ProceduresApplied(Unmarshal(fixDoc), SelectSeq(fixGiven, IsApplicable))

\* a D5 finding that is not marked auto-fixable is skipped and leaves the
\* refresh of the document, and the D6 finding after it is applied
C15_Witness_SkippedThenApplied ==
    /\ fixPc = "fixed"
    /\ Len(fixGiven) = 2
    /\ fixGiven[1].RuleID = "D5" /\ ~fixGiven[1].AutoFixable
    /\ fixGiven[2].RuleID = "D6" /\ fixGiven[2].AutoFixable
    /\ fixDoc.Val.refresh = JString(<<"5", "s">>)
    /\ fixOut.FixCount = 1
    /\ ~fixOut.Err
    /\ fixOut.Patched.Val.refresh = JString(<<"5", "s">>)
    /\ fixOut.Patched.Val.time.Val.from = JString(<<"n", "o", "w", "-", "1", "h">>)

\* ApplyFixes was called with a finding of this rule that it applies
Applied(r) ==
    /\ fixPc \in {"fixed", "again"}
    /\ \E i \in 1..Len(fixGiven) : fixGiven[i].AutoFixable /\ fixGiven[i].RuleID = r

\* the panels array of a document or of a panel, empty when there is none
PanelsIn(v) == IF v.Val.panels.Kind = "array" THEN v.Val.panels.Val ELSE <<>>

\* a panel of an affected visual type whose maxDataPoints is absent or zero
LacksSamplingLimit(p) ==
    /\ p.Val.type.Kind = "string"
    /\ p.Val.type.Val \in {"timeseries", "graph", "barchart", "heatmap"}
    /\ p.Val.maxDataPoints \in {JAbsent, JNumber(<<"0">>)}

\* C16: after the D7 fix is applied, every panel of an affected visual type,
\* top-level or nested in a group panel, whose maxDataPoints was absent or
\* zero has maxDataPoints = 1000 in the patched document.
C16_SamplingLimitSetEverywhere ==
    Applied("D7") =>
        \A i \in 1..Len(PanelsIn(fixDoc)) :
            LET p == PanelsIn(fixDoc)[i]
                q == PanelsIn(fixOut.Patched)[i]
            IN  /\ LacksSamplingLimit(p) => q.Val.maxDataPoints = JNumber(<<"1", "0", "0", "0">>)
                /\ \A j \in 1..Len(PanelsIn(p)) :
                       LacksSamplingLimit(PanelsIn(p)[j]) =>
                           PanelsIn(q)[j].Val.maxDataPoints = JNumber(<<"1", "0", "0", "0">>)

\* the pattern metacharacters
PatternMetachars == {".", "*", "+", "?", "(", ")", "[", "]", "{", "}", "|", "^", "$", "\\"}

\* the string has, somewhere, the operator =~ with a quoted value free of
\* pattern metacharacters
HasPlainPatternMatch(s) ==
    \E i \in 1..Len(s), j \in 1..Len(s) :
        /\ i + 3 <= j
        /\ SubSeq(s, i, i + 2) = <<"=", "~", "\"">>
        /\ s[j] = "\""
        /\ \A k \in (i + 3)..(j - 1) : s[k] # "\"" /\ s[k] \notin PatternMetachars

\* the target expressions of a panel
ExprsOfPanel(p) ==
    IF p.Val.targets.Kind # "array" THEN <<>>
    ELSE [t \in 1..Len(p.Val.targets.Val) |-> p.Val.targets.Val[t].Val.expr.Val]

\* C17: after the Q3 fix is applied, no target expression of a panel that
\* rule Q3 inspects, top-level or nested, still has the operator =~ with a
\* quoted value free of pattern metacharacters, and an expression without
\* such an occurrence is unchanged by the Q3 fix.
C17_NoPlainPatternMatchLeft ==
    Applied("Q3") =>
        \A i \in 1..Len(PanelsIn(fixDoc)) :
            LET p == PanelsIn(fixDoc)[i]
                q == PanelsIn(fixOut.Patched)[i]
            IN  /\ \A t \in 1..Len(ExprsOfPanel(q)) :
                       /\ ~HasPlainPatternMatch(ExprsOfPanel(q)[t])
                       /\ (~HasPlainPatternMatch(ExprsOfPanel(p)[t])
                           /\ \A g \in 1..Len(fixGiven) : fixGiven[g].RuleID = "Q3")
                              => ExprsOfPanel(q)[t] = ExprsOfPanel(p)[t]
                /\ \A j \in 1..Len(PanelsIn(p)) :
                       \A t \in 1..Len(ExprsOfPanel(PanelsIn(q)[j])) :
                           ~HasPlainPatternMatch(ExprsOfPanel(PanelsIn(q)[j])[t])

\* the findings of rule Q7 on a raw document
HardcodedIntervalFindings(doc) ==
    HardcodedIntervalCheck(BuildContext(ParseDashboard(doc).Dash))

\* the expression has the duration macro
HasRateIntervalMacro(s) == Contains(s, <<"$", "_", "_", "r", "a", "t", "e", "_", "i", "n", "t", "e", "r", "v", "a", "l">>)

\* C18: after the Q7 fix is applied, every target expression that rule Q7
\* flags has its literal duration bracket replaced by [$__rate_interval], so
\* that rule Q7 flags nothing in the patched document; an expression that
\* already has the macro is left unchanged by the Q7 fix.
C18_NoHardcodedIntervalLeft ==
    Applied("Q7") =>
        /\ HardcodedIntervalFindings(fixOut.Patched) = <<>>
        /\ (\A g \in 1..Len(fixGiven) : fixGiven[g].RuleID = "Q7") =>
               \A i \in 1..Len(PanelsIn(fixDoc)) :
                   LET p == PanelsIn(fixDoc)[i]
                       q == PanelsIn(fixOut.Patched)[i]
                   IN  /\ \A t \in 1..Len(ExprsOfPanel(p)) :
                              HasRateIntervalMacro(ExprsOfPanel(p)[t]) =>
                                  ExprsOfPanel(q)[t] = ExprsOfPanel(p)[t]
                       /\ \A j \in 1..Len(PanelsIn(p)) :
                              \A t \in 1..Len(ExprsOfPanel(PanelsIn(p)[j])) :
                                  HasRateIntervalMacro(ExprsOfPanel(PanelsIn(p)[j])[t]) =>
                                      ExprsOfPanel(PanelsIn(q)[j])[t] = ExprsOfPanel(PanelsIn(p)[j])[t]

\* a panel of an affected visual type without the maxDataPoints key
WithoutSamplingLimit(p) ==
    /\ p.Val.type.Kind = "string"
    /\ p.Val.type.Val \in {"timeseries", "graph", "barchart", "heatmap"}
    /\ p.Val.maxDataPoints = JAbsent

\* C19: a fix constructs the structure it writes to when the raw document
\* does not have it: D5 on a document without refresh yields refresh = "1m",
\* D6 on a document without a time object yields time.from = "now-1h", and D7
\* on an affected panel, top-level or nested, without maxDataPoints yields
\* maxDataPoints = 1000.
C19_AbsentStructureConstructed ==
    /\ (Applied("D5") /\ fixDoc.Val.refresh = JAbsent) =>
           fixOut.Patched.Val.refresh = JString(<<"1", "m">>)
    /\ (Applied("D6") /\ fixDoc.Val.time = JAbsent) =>
           /\ fixOut.Patched.Val.time.Kind = "object"
           /\ fixOut.Patched.Val.time.Val.from = JString(<<"n", "o", "w", "-", "1", "h">>)
    /\ Applied("D7") =>
           \A i \in 1..Len(PanelsIn(fixDoc)) :
               LET p == PanelsIn(fixDoc)[i]
                   q == PanelsIn(fixOut.Patched)[i]
               IN  /\ WithoutSamplingLimit(p) => q.Val.maxDataPoints = JNumber(<<"1", "0", "0", "0">>)
                   /\ \A j \in 1..Len(PanelsIn(p)) :
                          WithoutSamplingLimit(PanelsIn(p)[j]) =>
                              PanelsIn(q)[j].Val.maxDataPoints = JNumber(<<"1", "0", "0", "0">>)

\* D6 and D7 applied to a document without a time object whose timeseries
\* panel, nested in a row, has no maxDataPoints: both are constructed
C19_Witness_TimeAndNestedLimitConstructed ==
    /\ Applied("D6") /\ Applied("D7")
    /\ fixDoc.Val.time = JAbsent
    /\ Len(PanelsIn(fixDoc)) = 1
    /\ Len(PanelsIn(PanelsIn(fixDoc)[1])) = 1
    /\ WithoutSamplingLimit(PanelsIn(PanelsIn(fixDoc)[1])[1])
    /\ fixOut.Patched.Val.time.Val.from = JString(<<"n", "o", "w", "-", "1", "h">>)
    /\ PanelsIn(PanelsIn(fixOut.Patched)[1])[1].Val.maxDataPoints = JNumber(<<"1", "0", "0", "0">>)

\* a value in place of a leaf that a fix targets
Targeted == JString(<<"t", "a", "r", "g", "e", "t", "e", "d">>)

\* a target with its expr left out of the comparison
MaskTarget(t) == JObject([t.Val EXCEPT !.expr = Targeted])

\* a panel with the expr of its targets and its maxDataPoints left out, and
\* its nested panels likewise
RECURSIVE MaskPanel(_)
MaskPanel(p) ==
    JObject([p.Val EXCEPT
        !.maxDataPoints = Targeted,
        !.targets = IF @.Kind # "array" THEN @
                    ELSE JArray([t \in 1..Len(@.Val) |-> MaskTarget(@.Val[t])]),
        !.panels = IF @.Kind # "array" THEN @
                   ELSE JArray([j \in 1..Len(@.Val) |-> MaskPanel(@.Val[j])])])

\* a document with the leaves that the fixes target left out: refresh,
\* time.from (of a time object that may have been constructed), and the
\* maxDataPoints and target exprs of the panels
MaskDoc(doc) ==
    JObject([doc.Val EXCEPT
        !.refresh = Targeted,
        !.time = IF @.Kind = "absent" THEN JObject([from |-> Targeted, to |-> JAbsent])
                 ELSE IF @.Kind = "object" THEN JObject([@.Val EXCEPT !.from = Targeted])
                 ELSE @,
        !.panels = IF @.Kind # "array" THEN @
                   ELSE JArray([i \in 1..Len(@.Val) |-> MaskPanel(@.Val[i])])])

\* C20: the patched document differs from the input only in the leaf values
\* that the fixes target (refresh, time.from, maxDataPoints of panels, and
\* target expr strings); every other field, including a field the typed
\* model does not know, is preserved with its value, and no container is
\* restructured.
C20_OnlyTargetedLeavesChange ==
    fixPc \in {"fixed", "again"} => MaskDoc(fixOut.Patched) = MaskDoc(fixDoc)

\* the refresh of a raw document parses to less than 30 seconds
RefreshUnderThirtySeconds(doc) ==
    /\ doc.Val.refresh.Kind = "string"
    /\ parseGrafanaDuration(doc.Val.refresh.Val) # DurationErr
    /\ parseGrafanaDuration(doc.Val.refresh.Val) < 30 * 1000

\* C21: for a document whose refresh parses to less than 30 seconds the
\* analysis emits the D5 finding marked auto-fixable; after ApplyFixes with
\* the findings the refresh of the document is "1m", and the analysis of the
\* patched document emits no D5 finding.
C21_FrequentRefreshFlaggedAndFixed ==
    (fixDoc.Kind = "object" /\ RefreshUnderThirtySeconds(fixDoc)) =>
        /\ fixPc \in {"analysed", "patched", "reanalysed"} =>
               \E i \in 1..Len(fixReport.Findings) :
                   /\ fixReport.Findings[i].RuleID = "D5"
                   /\ fixReport.Findings[i].AutoFixable
        /\ fixPc \in {"patched", "reanalysed"} =>
               fixOut.Patched.Val.refresh = JString(<<"1", "m">>)
        /\ fixPc = "reanalysed" => CountRule(fixReport2.Findings, "D5") = 0

\* a document with refresh "10s" was analysed, fixed and analysed again
C21_Witness_TenSecondsFixed ==
    /\ fixPc = "reanalysed"
    /\ fixDoc.Val.refresh = JString(<<"1", "0", "s">>)
    /\ CountRule(fixReport.Findings, "D5") = 1
    /\ fixOut.Patched.Val.refresh = JString(<<"1", "m">>)
    /\ CountRule(fixReport2.Findings, "D5") = 0

\* the panels of a raw document, top-level and nested, each with the panel
\* at its place in the patched document
PanelPairs(doc, patched) ==
    LET top == [i \in 1..Len(PanelsIn(doc)) |->
                   [Before |-> PanelsIn(doc)[i], After |-> PanelsIn(patched)[i]]]
        nested(i) == [j \in 1..Len(PanelsIn(PanelsIn(doc)[i])) |->
                         [Before |-> PanelsIn(PanelsIn(doc)[i])[j],
                          After |-> PanelsIn(PanelsIn(patched)[i])[j]]]
    IN  top \o Flatten([i \in 1..Len(PanelsIn(doc)) |-> nested(i)])

\* C26: rule Q3 emits a finding for a label matcher only if the matcher
\* uses =~ and its value has no pattern metacharacter, and every matcher it
\* flags as auto-fixable is one that the Q3 fix rewrites in the raw
\* expression.
C26_FlaggedMatchersArePlainAndRewritten ==
    (fixDoc.Kind = "object" /\ fixPc \in {"patched", "reanalysed"}) =>
        \A i \in 1..Len(fixReport.Findings) :
            LET f == fixReport.Findings[i]
                pairs == PanelPairs(fixDoc, fixOut.Patched)
            IN  (f.RuleID = "Q3" /\ f.AutoFixable) =>
                    \A k \in 1..Len(pairs) :
                        Atoi(pairs[k].Before.Val.id.Val) = f.PanelIDs[1] =>
                            \A t \in 1..Len(ExprsOfPanel(pairs[k].Before)) :
                                ExprsOfPanel(pairs[k].Before)[t] \in f.Exprs =>
                                    /\ HasPlainPatternMatch(ExprsOfPanel(pairs[k].Before)[t])
                                    /\ ExprsOfPanel(pairs[k].After)[t]
                                           # ExprsOfPanel(pairs[k].Before)[t]
(***************************************************************************)
(* The scanner specification: the loop of replaceVariableRefs, one         *)
(* iteration at a time.                                                    *)
(***************************************************************************)
\* one iteration of the loop, mutated: a $ that is the last byte is dropped
LoopBodyDropping(expr, i, b) ==
    IF expr[i] # "$" THEN [I |-> i + 1, B |-> Append(b, expr[i])]
    ELSE IF i + 1 > Len(expr) THEN [I |-> i + 1, B |-> b]
    ELSE IF expr[i + 1] = "{"
         THEN LET end == IndexByteFrom(expr, i, "}")
              IN  IF end = -1 THEN [I |-> i + 1, B |-> Append(b, expr[i])]
                  ELSE [I |-> i + end + 1, B |-> b \o Placeholder]
    ELSE IF isIdentStart(expr[i + 1])
         THEN [I |-> IdentEnd(expr, i + 1), B |-> b \o Placeholder]
    ELSE [I |-> i + 1, B |-> Append(b, expr[i])]

\* one iteration of the loop of replaceVariableRefs at read position i
\* (counted from 1) with b in the builder: the next position and builder
LoopBody(expr, i, b) ==
    IF expr[i] # "$" THEN [I |-> i + 1, B |-> Append(b, expr[i])]
    ELSE IF i + 1 > Len(expr) THEN [I |-> i + 1, B |-> Append(b, expr[i])]
    ELSE IF expr[i + 1] = "{"
         THEN LET end == IndexByteFrom(expr, i, "}")
              IN  IF end = -1 THEN [I |-> i + 1, B |-> Append(b, expr[i])]
                  ELSE [I |-> i + end + 1, B |-> b \o Placeholder]
    ELSE IF isIdentStart(expr[i + 1])
         THEN [I |-> IdentEnd(expr, i + 1), B |-> b \o Placeholder]
    ELSE [I |-> i + 1, B |-> Append(b, expr[i])]

ScanInit ==
    /\ scanExpr \in SubstInputs
    /\ scanI = 1
    /\ scanB = <<>>

\* for i < len(expr) { ... }: one iteration
ScanStep ==
    /\ scanI <= Len(scanExpr)
    /\ scanI' = LoopBody(scanExpr, scanI, scanB).I
    /\ scanB' = LoopBody(scanExpr, scanI, scanB).B
    /\ UNCHANGED scanExpr

ScanNext == ScanStep /\ UNCHANGED <<scoreVars, substVars, engineVars, ruleVars, fixVars, ctxVars, costVars, fetchVars>>

InitScan == ScoreIdle /\ SubstIdle /\ EngineIdle /\ RuleIdle /\ FixIdle /\ ScanInit /\ CtxIdle /\ CostIdle /\ FetchIdle

SpecScan == InitScan /\ [][ScanNext]_vars

(***************************************************************************)
(* Claims about the scanner.                                               *)
(***************************************************************************)
\* the byte at i is a $ that starts no reference: it is the last byte, or it
\* is followed by neither an identifier-start byte nor {, or it is followed
\* by { and no } follows
IsLoneDollar(expr, i) ==
    /\ expr[i] = "$"
    /\ \/ i = Len(expr)
       \/ /\ i < Len(expr)
          /\ expr[i + 1] # "{"
          /\ expr[i + 1] \notin Letters \cup {"_"}
       \/ /\ i < Len(expr)
          /\ expr[i + 1] = "{"
          /\ \A j \in (i + 1)..Len(expr) : expr[j] # "}"

NumberLiteral == Node("NumberLiteral", <<>>, "", "", <<>>, <<>>, 0, 0, <<>>, <<>>)

ParenExpr(expr) == Node("ParenExpr", <<>>, "", "", <<>>, <<expr>>, 0, 0, <<>>, <<>>)

UnaryExpr(expr) == Node("UnaryExpr", <<>>, "", "-", <<>>, <<expr>>, 0, 0, <<>>, <<>>)

\* the trees without a node around them: a literal, the selectors of the
\* metrics x and y, and range selectors of five minutes and of twenty seconds
CostLeaves ==
    { NumberLiteral,
      VectorSelector(<<"x">>, <<>>),
      VectorSelector(<<"y">>, <<>>),
      MatrixSelector(VectorSelector(<<"y">>, <<>>), 300),
      MatrixSelector(VectorSelector(<<"x">>, <<>>), 20) }

\* a tree with one more node around it
CostWrappers(e) ==
    { AggregateExpr("sum", e, <<>>),
      AggregateExpr("max", e, <<<<"j", "o", "b">>, <<"l", "e">>>>),
      Call("rate", <<e>>),
      Call("histogram_quantile", <<NumberLiteral, e>>),
      Call("label_replace", <<e>>),
      Call("abs", <<e>>),
      ParenExpr(e),
      UnaryExpr(e),
      SubqueryExpr(e, 120, 30),
      SubqueryExpr(e, 20, 0),
      BinaryExpr("+", e, VectorSelector(<<"y">>, <<>>), <<>>) }

\* the trees with up to n nodes around a leaf
RECURSIVE CostTrees(_)
CostTrees(n) ==
    IF n = 0 THEN CostLeaves
    ELSE CostLeaves \cup UNION { CostWrappers(e) : e \in CostTrees(n - 1) }

\* no tree, and the trees
CostExprs == {NoExpr} \cup CostTrees(MaxWrappers)

\* no cardinality data, and data that has the series count of the metric x
CostCardinalities ==
    { NilCardinality, CardinalityData([k \in {<<"x">>} |-> 50], NoCounts, 5000) }

\* the steps, in seconds: none, a negative one, and two positive ones
CostSteps == {0, -5, 15, 60}

CostInit ==
    /\ costExpr \in CostExprs
    /\ costCard \in CostCardinalities
    /\ costStep \in CostSteps
    /\ costOut = NoCost

\* cost := EstimateQueryCost(expr, card, stepSeconds)
EstimateCost ==
    /\ ~costOut.Done
    /\ costOut' = [Done |-> TRUE, Cost |-> EstimateQueryCost(costExpr, costCard, costStep)]
    /\ UNCHANGED <<costExpr, costCard, costStep>>

CostNext ==
    EstimateCost /\ UNCHANGED <<scoreVars, substVars, engineVars, ruleVars, fixVars, scanVars, ctxVars, fetchVars>>

InitCost ==
    ScoreIdle /\ SubstIdle /\ EngineIdle /\ RuleIdle /\ FixIdle /\ ScanIdle /\ CtxIdle /\ CostInit /\ FetchIdle

SpecCost == InitCost /\ [][CostNext]_vars

(***************************************************************************)
(* Claims about the cost estimate.                                         *)
(***************************************************************************)
\* the step of the call: 15 seconds in place of a step that is not positive
AmbientStep == IF costStep <= 0 THEN 15 ELSE costStep

\* the cost the recursive definition states for a node below the nodes whose
\* kinds are in above, the outermost first; depth is how many of them are
\* aggregations
RECURSIVE StatedCost(_, _)
StatedCost(node, above) ==
    LET depth == Cardinality({ i \in 1..Len(above) : above[i] = "AggregateExpr" })
        below(i) == StatedCost(node.Children[i], Append(above, node.Kind))
    IN  CASE node.Kind \in {"none", "NumberLiteral"} -> Frac(0, 1)
          [] node.Kind = "VectorSelector" ->
               IF ~costCard.Nil /\ node.Name \in DOMAIN costCard.SeriesByMetric
               THEN Frac(costCard.SeriesByMetric[node.Name], 1)
               ELSE Frac(1000, 1)
          [] node.Kind = "MatrixSelector" ->
               FracMul(below(1), Frac(node.Range, AmbientStep))
          [] node.Kind = "AggregateExpr" ->
               FracMul(below(1), Frac(10 + 2 * depth + Len(node.Grouping), 10))
          [] node.Kind = "Call" ->
               FracMul(FracSum([i \in 1..Len(node.Children) |-> below(i)]),
                       CASE node.Func = "rate" -> Frac(1, 1)
                         [] node.Func = "histogram_quantile" -> Frac(2, 1)
                         [] node.Func = "label_replace" -> Frac(3, 10)
                         [] OTHER -> Frac(1, 1))
          [] node.Kind = "BinaryExpr" -> FracAdd(below(1), below(2))
          [] node.Kind = "SubqueryExpr" ->
               LET subStep == IF node.Step > 0 THEN node.Step ELSE AmbientStep
               IN  FracMul(below(1),
                           IF node.Range >= subStep THEN Frac(node.Range, subStep)
                           ELSE Frac(1, 1))
          [] OTHER -> below(1)

\* C25: EstimateQueryCost equals the recursive definition: 0 for no tree and
\* for a literal; the measured series count of the metric of a selector, or
\* 1000; selector cost x (range / step) for a range selector, 20000 for an
\* unmeasured selector over 20 steps; inner cost x (1 + 0.2 x depth + 0.1 x
\* grouping labels) for an aggregation, depth being the number of
\* aggregations around it; (sum of argument costs) x weight for a call;
\* left + right for a binary operation; inner cost x max(1, range / sub-step)
\* for a subquery, the sub-step falling back to the step; a step that is not
\* positive being replaced by 15 seconds.
C25_CostEqualsRecursiveDefinition ==
    costOut.Done =>
        /\ costOut.Cost = StatedCost(costExpr, <<>>)
        /\ (/\ costExpr = MatrixSelector(VectorSelector(<<"y">>, <<>>), 300)
            /\ AmbientStep = 15) => costOut.Cost = <<20000, 1>>

\* the cost of max by (job, le) (rate(sum(y[5m]))) without a step and with
\* no data: the inner aggregation is at depth 1, below a call and an
\* aggregation
C25_Witness_NestedAggregationBelowCall ==
    /\ costOut.Done
    /\ costStep = 0
    /\ costCard.Nil
    /\ costExpr = AggregateExpr("max",
                      Call("rate", <<AggregateExpr("sum",
                          MatrixSelector(VectorSelector(<<"y">>, <<>>), 300), <<>>)>>),
                      <<<<"j", "o", "b">>, <<"l", "e">>>>)
    /\ costOut.Cost = <<28800, 1>>
(***************************************************************************)
(* The client specification: concurrent runs of AnalyzeDashboard on an     *)
(* engine with one cardinality client, as the handlers of the server make  *)
(* them. A run calls Fetch once, then builds its report. Each statement of *)
(* Fetch that touches the client is a step; the clock moves in between.    *)
(***************************************************************************)
Callers == 1..MaxCallers

\* what the clock moves by in one step
TickStep == 150 * Second

\* the data of the TSDB status API: few head series, or more than a million
FetchData ==
    { CardinalityData(NoCounts, NoCounts, 5000),
      CardinalityData(NoCounts, NoCounts, 2000000) }

\* what a request can meet: a server that is unreachable, a timeout of the
\* http.Client, a response that is not 200, a body that is no JSON, a status
\* that is not success, and a response with data
Responses ==
    { Response("unreachable", 0, FALSE, "", NilCardinality),
      Response("timeout", 0, FALSE, "", NilCardinality),
      Response("", 500, TRUE, "success", NilCardinality),
      Response("", 200, FALSE, "", NilCardinality),
      Response("", 200, TRUE, "error", NilCardinality) }
    \cup { Response("", 200, TRUE, "success", d) : d \in FetchData }

\* what a response is, in words
ResponseKind(resp) ==
    CASE resp.GetErr # "" -> resp.GetErr
      [] resp.StatusCode # 200 -> "non-200"
      [] ~resp.Decodes -> "malformed"
      [] resp.Status # "success" -> "non-success"
      [] OTHER -> "ok"

\* the dashboards of the runs: an empty one, and one with a panel
FetchDashboards == { Dashboard(<<>>), DashboardOf(<<<<Target(ExprPlain)>>>>, 0) }

\* the reports AnalyzeDashboard can build for a dashboard with what Fetch
\* returned, one for each order in which Q9 and D8 can range over their
\* maps; computed once
ReportsOnce ==
    [x \in FetchDashboards \X ({NilCardinality} \cup FetchData) |->
        { ReportWithCardinality(x[1], x[2], [Q9 |-> q9, D8 |-> d8]) :
            q9 \in MapOrders(DuplicateExpressionsKeys(BuildContext(x[1]))),
            d8 \in MapOrders(DuplicateQueriesKeys(BuildContext(x[1]))) }]

\* a run that has not started. pc is the statement the run is at; data and
\* err are the variables of Fetch; report is the report of the run. Three
\* fields are history the program does not hold: age is the time since
\* c.cachedAt at the freshness check of the call (-1 with nothing cached),
\* requests counts the requests of the run, and met names what the request
\* of the run met.
NotCalled ==
    [pc |-> "idle", data |-> NilCardinality, err |-> "", age |-> -1, requests |-> 0,
     met |-> "",
     report |-> [Done |-> FALSE, Findings |-> <<>>, CardinalityAvailable |-> FALSE]]

FetchInit ==
    /\ mu = 0
    /\ cached = NilCardinality
    /\ cachedAt = 0
    /\ now = 0
    /\ calls = [c \in Callers |-> NotCalled]
    /\ fetchDash \in FetchDashboards

\* time passes
Tick ==
    /\ now < MaxTicks * TickStep
    /\ now' = now + TickStep
    /\ UNCHANGED <<mu, cached, cachedAt, calls, fetchDash>>

\* a handler calls AnalyzeDashboard, which gets as far as the call of Fetch
StartRun(c) ==
    /\ calls[c].pc = "idle"
    /\ calls' = [calls EXCEPT ![c].pc = "lock"]
    /\ UNCHANGED <<mu, cached, cachedAt, now, fetchDash>>

\* c.mu.Lock(), the first
LockForCheck(c) ==
    /\ calls[c].pc = "lock"
    /\ mu = 0
    /\ mu' = c
    /\ calls' = [calls EXCEPT ![c].pc = "check"]
    /\ UNCHANGED <<cached, cachedAt, now, fetchDash>>

\* the freshness check, mutated: a value of exactly cacheTTL counts as fresh
CheckFreshInclusive(c) ==
    /\ calls[c].pc = "check"
    /\ IF ~cached.Nil /\ now - cachedAt <= cacheTTL
       THEN calls' = [calls EXCEPT ![c].pc = "unlockHit", ![c].data = cached,
                                   ![c].age = now - cachedAt]
       ELSE calls' = [calls EXCEPT ![c].pc = "unlockMiss",
                                   ![c].age = IF cached.Nil THEN -1 ELSE now - cachedAt]
    /\ UNCHANGED <<mu, cached, cachedAt, now, fetchDash>>

\* if c.cached != nil && time.Since(c.cachedAt) < cacheTTL { data := c.cached
CheckFresh(c) ==
    /\ calls[c].pc = "check"
    /\ IF ~cached.Nil /\ now - cachedAt < cacheTTL
       THEN calls' = [calls EXCEPT ![c].pc = "unlockHit", ![c].data = cached,
                                   ![c].age = now - cachedAt]
       ELSE calls' = [calls EXCEPT ![c].pc = "unlockMiss",
                                   ![c].age = IF cached.Nil THEN -1 ELSE now - cachedAt]
    /\ UNCHANGED <<mu, cached, cachedAt, now, fetchDash>>

\* the return of a hit, mutated: the mutex stays locked
UnlockHitHolding(c) ==
    /\ calls[c].pc = "unlockHit"
    /\ mu' = mu
    /\ calls' = [calls EXCEPT ![c].pc = "returned"]
    /\ UNCHANGED <<cached, cachedAt, now, fetchDash>>

\* c.mu.Unlock(); return data, nil
UnlockHit(c) ==
    /\ calls[c].pc = "unlockHit"
    /\ mu' = 0
    /\ calls' = [calls EXCEPT ![c].pc = "returned"]
    /\ UNCHANGED <<cached, cachedAt, now, fetchDash>>

\* c.mu.Unlock(), after the if
UnlockMiss(c) ==
    /\ calls[c].pc = "unlockMiss"
    /\ mu' = 0
    /\ calls' = [calls EXCEPT ![c].pc = "request"]
    /\ UNCHANGED <<cached, cachedAt, now, fetchDash>>

\* data, err := c.fetchFromAPI(); if err != nil { return nil, err }
Request(c) ==
    /\ calls[c].pc = "request"
    /\ \E resp \in Responses :
          LET out == fetchFromAPI(resp)
          IN  calls' = [calls EXCEPT
                  ![c].requests = @ + 1,
                  ![c].data = out.Data,
                  ![c].err = out.Err,
                  ![c].met = ResponseKind(resp),
                  ![c].pc = IF out.Err # "" THEN "returned" ELSE "lockStore"]
    /\ UNCHANGED <<mu, cached, cachedAt, now, fetchDash>>

\* c.mu.Lock(), the second
LockForStore(c) ==
    /\ calls[c].pc = "lockStore"
    /\ mu = 0
    /\ mu' = c
    /\ calls' = [calls EXCEPT ![c].pc = "storeCached"]
    /\ UNCHANGED <<cached, cachedAt, now, fetchDash>>

\* c.cached = data
StoreCached(c) ==
    /\ calls[c].pc = "storeCached"
    /\ cached' = calls[c].data
    /\ calls' = [calls EXCEPT ![c].pc = "storeCachedAt"]
    /\ UNCHANGED <<mu, cachedAt, now, fetchDash>>

\* c.cachedAt = time.Now()
StoreCachedAt(c) ==
    /\ calls[c].pc = "storeCachedAt"
    /\ cachedAt' = now
    /\ calls' = [calls EXCEPT ![c].pc = "unlockStore"]
    /\ UNCHANGED <<mu, cached, now, fetchDash>>

\* c.mu.Unlock(); return data, nil
UnlockStore(c) ==
    /\ calls[c].pc = "unlockStore"
    /\ mu' = 0
    /\ calls' = [calls EXCEPT ![c].pc = "returned"]
    /\ UNCHANGED <<cached, cachedAt, now, fetchDash>>

\* the rest of AnalyzeDashboard, mutated: the context gets what the client
\* has cached in place of what Fetch returned
BuildReportFromCache(c) ==
    /\ calls[c].pc = "returned"
    /\ \E r \in ReportsOnce[<<fetchDash, cached>>] :
           calls' = [calls EXCEPT ![c].pc = "done", ![c].report = r]
    /\ UNCHANGED <<mu, cached, cachedAt, now, fetchDash>>

\* the rest of AnalyzeDashboard: if err != nil { log.Printf(...) }, the
\* context, the rules, the report
BuildReport(c) ==
    /\ calls[c].pc = "returned"
    /\ \E r \in ReportsOnce[<<fetchDash, calls[c].data>>] :
           calls' = [calls EXCEPT ![c].pc = "done", ![c].report = r]
    /\ UNCHANGED <<mu, cached, cachedAt, now, fetchDash>>

\* func (c *Client) Fetch() (*CardinalityData, error): its statements
Fetch(c) ==
    \/ LockForCheck(c)
    \/ CheckFresh(c)
    \/ UnlockHit(c)
    \/ UnlockMiss(c)
    \/ Request(c)
    \/ LockForStore(c)
    \/ StoreCached(c)
    \/ StoreCachedAt(c)
    \/ UnlockStore(c)

FetchStep ==
    \/ Tick
    \/ \E c \in Callers : StartRun(c)
    \/ \E c \in Callers : Fetch(c)
    \/ \E c \in Callers : BuildReport(c)

FetchNext ==
    FetchStep /\ UNCHANGED <<scoreVars, substVars, engineVars, ruleVars, fixVars, scanVars, ctxVars, costVars>>

InitFetch ==
    ScoreIdle /\ SubstIdle /\ EngineIdle /\ RuleIdle /\ FixIdle /\ ScanIdle /\ CtxIdle /\ CostIdle /\ FetchInit

SpecFetch == InitFetch /\ [][FetchNext]_vars

\* the same with calls of Fetch that go on: the scheduler runs every
\* goroutine that can take a step, a request ends (the http.Client has a
\* timeout), and a goroutine that waits for the mutex gets it once it is
\* free for good
SpecFetchFair ==
    /\ InitFetch
    /\ [][FetchNext]_vars
    /\ \A c \in Callers : WF_fetchVars(Fetch(c))

(***************************************************************************)
(* Claims about the cardinality client.                                    *)
(***************************************************************************)
\* the statements of Fetch between a Lock and the Unlock that follows it
LockedStatements ==
    {"check", "unlockHit", "unlockMiss", "storeCached", "storeCachedAt", "unlockStore"}

\* the run has come back from Fetch
HasReturned(c) == calls[c].pc \in {"returned", "done"}

\* C22: under every interleaving of concurrent calls of Fetch on one client,
\* c.cached and c.cachedAt are read and written only by the caller that
\* holds the mutex, no caller reads the pair between the two writes of
\* another; the mutex is not held during the request and not after the
\* return, of a hit, of a failed request and of a store alike; and every
\* call that has started returns.
C22_CacheGuardedAndEveryCallReturns ==
    /\ [](\A c \in Callers :
            /\ calls[c].pc \in LockedStatements <=> mu = c
            /\ calls[c].pc = "check" =>
                   \A o \in Callers : calls[o].pc # "storeCachedAt")
    /\ [][(cached' # cached \/ cachedAt' # cachedAt) =>
              /\ mu # 0
              /\ mu' = mu
              /\ calls[mu].pc \in {"storeCached", "storeCachedAt"}]_fetchVars
    /\ \A c \in Callers : (calls[c].pc = "lock") ~> HasReturned(c)

\* caller 1 holds the mutex between its two writes while caller 2 waits at
\* the first Lock
C22_Witness_WaitingDuringStore ==
    /\ mu = 1
    /\ calls[1].pc = "storeCachedAt"
    /\ calls[2].pc = "lock"

\* C23: a Fetch whose freshness check finds a value cached less than 5
\* minutes before returns that value without a request; a Fetch whose check
\* finds the cached value 5 minutes old or older does not return without a
\* request; and no run makes more than one request.
C23_FreshHitsNoRequestExpiredRefetches ==
    /\ [](\A c \in Callers :
            /\ calls[c].requests <= 1
            /\ (calls[c].age >= 0 /\ calls[c].age < 5 * Minute) =>
                   /\ calls[c].requests = 0
                   /\ calls[c].pc \in {"unlockHit", "returned", "done"}
                   /\ ~calls[c].data.Nil
                   /\ calls[c].err = ""
            /\ (calls[c].age >= 5 * Minute /\ HasReturned(c)) => calls[c].requests = 1)
    /\ [][\A c \in Callers :
              /\ (calls[c].pc = "check" /\ calls'[c].pc = "unlockHit") =>
                     calls'[c].data = cached
              /\ calls[c].pc \in {"unlockHit", "returned"} =>
                     calls'[c].data = calls[c].data]_fetchVars

\* one run has stored what its request returned, the other has come back
\* two and a half minutes later with the cached value and without a request
C23_Witness_HitAfterStore ==
    \E c, o \in Callers :
        /\ calls[c].pc = "done"
        /\ calls[c].requests = 1
        /\ calls[c].err = ""
        /\ calls[o].pc = "done"
        /\ calls[o].requests = 0
        /\ calls[o].age = TickStep
        /\ calls[o].report.CardinalityAvailable

\* C30: a failed Fetch leaves c.cached and c.cachedAt as they are; the
\* cache only ever receives the data of a request that succeeded; and Fetch
\* returns data only from a request of its own or from a value cached less
\* than 5 minutes before its freshness check: with the cache expired and the
\* request failed, the caller gets an error and no data.
C30_FailedFetchLeavesCacheAndReturnsNoData ==
    /\ [][(\A c \in Callers :
               (calls'[c] # calls[c] /\ calls'[c].err # "") =>
                   (cached' = cached /\ cachedAt' = cachedAt))
           /\ (cached' # cached =>
                  /\ ~cached'.Nil
                  /\ \E c \in Callers :
                         /\ calls[c].met = "ok"
                         /\ calls[c].err = ""
                         /\ cached' = calls[c].data)]_fetchVars
    /\ [](\A c \in Callers :
            HasReturned(c) =>
                /\ calls[c].requests = 0 => (calls[c].age >= 0 /\ calls[c].age < 5 * Minute)
                /\ calls[c].err # "" <=> calls[c].data.Nil
                /\ calls[c].met \notin {"", "ok"} => calls[c].err # "")

\* a run has come back with an error and no data from a check that found
\* the cached value expired; the expired value is still in the cache
C30_Witness_ExpiredAndRefreshFailed ==
    \E c \in Callers :
        /\ calls[c].pc = "done"
        /\ calls[c].age >= 5 * Minute
        /\ calls[c].err # ""
        /\ calls[c].data.Nil
        /\ ~cached.Nil
        /\ now - cachedAt >= 5 * Minute

\* the findings of AnalyzeDashboard on an engine without a cardinality
\* client
UnenrichedFindings ==
    { AnalyzeDashboard(fetchDash, [Q9 |-> q9, D8 |-> d8]).Findings :
        q9 \in MapOrders(DuplicateExpressionsKeys(BuildContext(fetchDash))),
        d8 \in MapOrders(DuplicateQueriesKeys(BuildContext(fetchDash))) }

\* the request of the run met a failure
MetFailure(c) ==
    calls[c].met \in {"unreachable", "timeout", "non-200", "malformed", "non-success"}

\* C24: when the request of a run fails (an unreachable server, a timeout,
\* a response that is not 200, a malformed body, a status that is not
\* success), Fetch returns no data and an error, and AnalyzeDashboard goes
\* on: the run is at the statements after the call, where a report can
\* always be built, or at its end with a report that has
\* CardinalityAvailable = false and the findings of the analysis without
\* cardinality data.
C24_FailedFetchDegradesToUnenriched ==
    \A c \in Callers :
        MetFailure(c) =>
            /\ calls[c].data.Nil
            /\ calls[c].err # ""
            /\ calls[c].pc \in {"returned", "done"}
            /\ calls[c].pc = "returned" =>
                   ReportsOnce[<<fetchDash, calls[c].data>>] # {}
            /\ calls[c].pc = "done" =>
                   /\ calls[c].report.Done
                   /\ ~calls[c].report.CardinalityAvailable
                   /\ calls[c].report.Findings \in UnenrichedFindings

\* one run met a timeout and reported without cardinality data, while the
\* other reported with the data and one finding more
C24_Witness_TimeoutBesideEnrichedRun ==
    \E c, o \in Callers :
        /\ calls[c].pc = "done"
        /\ calls[c].met = "timeout"
        /\ ~calls[c].report.CardinalityAvailable
        /\ calls[o].pc = "done"
        /\ calls[o].report.CardinalityAvailable
        /\ Len(calls[o].report.Findings) = Len(calls[c].report.Findings) + 1
====
